---- MODULE Spec2Model ----
(***************************************************************************)
(* IDML translation round trip: the two extractors (IdmlParser,            *)
(* IdmlParserXML), the merge steps of TranslationService and the two       *)
(* rewriters, modelled on the objects xml2js produces for a story file.    *)
(*                                                                         *)
(* Representation                                                          *)
(*   string        a sequence of one-character strings ("" is <<>>)        *)
(*   optional key  a sequence of length 0 (key absent) or more (the array  *)
(*                 xml2js builds for the child elements of that name)      *)
(*   PointSize     [h, dp]: the value in hundredths of a point and the     *)
(*                 number of decimals its text shows ("12" is 1200/0,      *)
(*                 "9.23" is 923/2)                                        *)
(*   entry path    a sequence of tokens, <<"Stories/","Story_","u1",".xml">>*)
(*   file bytes    [wellFormed, fmt, doc, bytes]: an XML text is its       *)
(*                 parsed tree plus the form of its serialization, any     *)
(*                 other file is a byte value                              *)
(* Text nodes mixed with child elements (the "_" key of xml2js) and        *)
(* Content elements that carry attributes are outside the input domain.    *)
(***************************************************************************)
EXTENDS Integers, Sequences, FiniteSets, TLC

VARIABLES
    pc,             \* position of the invocation
    op,             \* "submit" or "complete": the method that is running
    idmlBuffer,     \* the package passed to the invocation
    targetLanguage, \* the target language code passed to the invocation
    translated,     \* translationResponse.translatedTextBoxes
    parserZip,      \* IdmlParser.zip: <<>> (null) or <<package>>
    parserXMLZip,   \* IdmlParserXML.zip: <<>> (null) or <<package>>
    standardBoxes,  \* standardDocument.textBoxes
    xmlBoxes,       \* xmlDocument.textBoxes
    allTextBoxes,   \* the combined list
    updatedTextBoxes, \* the list after mergeTranslations
    standardTextBoxes, \* the Direct subset handed to IdmlParser
    xmlTextBoxes,   \* the Tagged subset handed to IdmlParserXML
    updatedIdmlBuffer, \* the package being rewritten / returned
    submitted,      \* the text boxes of the request sent to the webhook
    failure,        \* "" or the error the invocation ended with
    startIndex,     \* submitIdmlForTranslation's startIndex: <<>> (undefined) or <<n>>
    endIndex,       \* submitIdmlForTranslation's endIndex: <<>> (undefined) or <<n>>
    maxAttempts,    \* waitForTranslationCompletion's maxAttempts
    intervalMs,     \* waitForTranslationCompletion's intervalMs
    attempt,        \* the loop counter of waitForTranslationCompletion
    pollLog,        \* what the polling did so far: statuses checked and waits
    pollPc,         \* "idle", "loop", "wait" or "ended"
    pollOutcome,    \* "" or how waitForTranslationCompletion ended
    calls           \* the calls made on a parser object and what each returned

vars == <<pc, op, idmlBuffer, targetLanguage, translated, parserZip,
          parserXMLZip, standardBoxes, xmlBoxes, allTextBoxes,
          updatedTextBoxes, standardTextBoxes, xmlTextBoxes,
          updatedIdmlBuffer, submitted, failure, startIndex, endIndex,
          maxAttempts, intervalMs, attempt, pollLog, pollPc, pollOutcome,
          calls>>

\* the state of waitForTranslationCompletion
pollVars == <<maxAttempts, intervalMs, attempt, pollLog, pollPc, pollOutcome>>

\* what no step of the pipeline assigns
extraVars == <<startIndex, endIndex, pollVars, calls>>

\* no waitForTranslationCompletion is running
NotPolling ==
    /\ maxAttempts = 0
    /\ intervalMs = 0
    /\ attempt = 0
    /\ pollLog = <<>>
    /\ pollPc = "idle"
    /\ pollOutcome = ""

----------------------------------------------------------------------------
(* Strings *)

Whitespace == {" ", "\n"}

NonBlank(s) == {i \in 1..Len(s) : s[i] \notin Whitespace}

SetMin(S) == CHOOSE x \in S : \A y \in S : x <= y

SetMax(S) == CHOOSE x \in S : \A y \in S : x >= y

\* String.prototype.trim
trim(s) ==
    IF NonBlank(s) = {} THEN <<>>
    ELSE SubSeq(s, SetMin(NonBlank(s)), SetMax(NonBlank(s)))

RECURSIVE Concat(_)
\* the strings of a list one after the other ("text += x" over the list)
Concat(ss) == IF ss = <<>> THEN <<>> ELSE Head(ss) \o Concat(Tail(ss))

RECURSIVE Join(_, _)
\* Array.prototype.join
Join(ss, sep) ==
    IF ss = <<>> THEN <<>>
    ELSE IF Len(ss) = 1 THEN ss[1]
    ELSE ss[1] \o sep \o Join(Tail(ss), sep)

RECURSIVE RemoveFirst(_, _)
\* String.prototype.replace(token, ''): the first occurrence only
RemoveFirst(path, token) ==
    IF path = <<>> THEN <<>>
    ELSE IF Head(path) = token THEN Tail(path)
    ELSE <<Head(path)>> \o RemoveFirst(Tail(path), token)

RECURSIVE SelectSeqIdx(_, _, _)
\* the elements of s, in order, whose index is in keep
SelectSeqIdx(s, keep, i) ==
    IF i > Len(s) THEN <<>>
    ELSE (IF i \in keep THEN <<s[i]>> ELSE <<>>) \o SelectSeqIdx(s, keep, i + 1)

----------------------------------------------------------------------------
(* Language configuration *)

LeftToRightDirection == "LeftToRightDirection"
RightToLeftDirection == "RightToLeftDirection"

\* SUPPORTED_LANGUAGES: code, direction, expansionFactor in percent
SUPPORTED_LANGUAGES ==
    << [code |-> "en", direction |-> LeftToRightDirection, expansionFactor |-> 100],
       [code |-> "es", direction |-> LeftToRightDirection, expansionFactor |-> 115],
       [code |-> "fr", direction |-> LeftToRightDirection, expansionFactor |-> 110],
       [code |-> "de", direction |-> LeftToRightDirection, expansionFactor |-> 120],
       [code |-> "pt", direction |-> LeftToRightDirection, expansionFactor |-> 115],
       [code |-> "it", direction |-> LeftToRightDirection, expansionFactor |-> 110],
       [code |-> "ru", direction |-> LeftToRightDirection, expansionFactor |-> 115],
       [code |-> "zh", direction |-> LeftToRightDirection, expansionFactor |-> 80],
       [code |-> "ja", direction |-> LeftToRightDirection, expansionFactor |-> 90],
       [code |-> "ko", direction |-> LeftToRightDirection, expansionFactor |-> 85],
       [code |-> "ar", direction |-> RightToLeftDirection, expansionFactor |-> 125],
       [code |-> "fa", direction |-> RightToLeftDirection, expansionFactor |-> 130],
       [code |-> "he", direction |-> RightToLeftDirection, expansionFactor |-> 110],
       [code |-> "ur", direction |-> RightToLeftDirection, expansionFactor |-> 135] >>

\* String.prototype.toLowerCase on the codes the model passes in
toLowerCase(code) ==
    CASE code = "FA" -> "fa"
      [] code = "Fa" -> "fa"
      [] code = "EN" -> "en"
      [] code = "ZH" -> "zh"
      [] code = "XX" -> "xx"
      [] OTHER -> code

\* LanguageConfigManager.getLanguageConfig: <<>> (undefined) or <<config>>
getLanguageConfig(languageCode) ==
    SelectSeq(SUPPORTED_LANGUAGES,
              LAMBDA c : c.code = toLowerCase(languageCode))

\* variant: the language code is looked up as given, not lower-cased
getTextDirection_CaseSensitive(languageCode) ==
    LET config == SelectSeq(SUPPORTED_LANGUAGES,
                            LAMBDA c : c.code = languageCode)
    IN  IF config = <<>> THEN LeftToRightDirection ELSE config[1].direction

getTextDirection(languageCode) ==
    LET config == getLanguageConfig(languageCode)
    IN  IF config = <<>> THEN LeftToRightDirection ELSE config[1].direction

\* variant: no fallback for a code without a configuration
getExpansionFactor_NoDefault(languageCode) ==
    LET config == getLanguageConfig(languageCode)
    IN  IF config = <<>> THEN 0 ELSE config[1].expansionFactor

getExpansionFactor(languageCode) ==
    LET config == getLanguageConfig(languageCode)
    IN  IF config = <<>> \/ config[1].expansionFactor = 0 THEN 100
        ELSE config[1].expansionFactor

----------------------------------------------------------------------------
(* Entry paths *)

\* name.startsWith('Stories/Story_') && name.endsWith('.xml')
IsStoryFile(name) ==
    /\ Len(name) >= 3
    /\ name[1] = "Stories/"
    /\ name[2] = "Story_"
    /\ name[Len(name)] = ".xml"

\* storyFile.replace('Stories/', '').replace('.xml', '')
StoryIdOf(storyFile) == RemoveFirst(RemoveFirst(storyFile, "Stories/"), ".xml")

\* Object.keys(zip.files).filter(...): the indices of the story files, in order
StoryFileIdx(zip) == {i \in 1..Len(zip) : IsStoryFile(zip[i].name)}

----------------------------------------------------------------------------
(* Direct extraction: IdmlParser *)

\* parsed['idPkg:Story'] || parsed.idPkg?.Story is defined
HasStoryData(doc) == doc.root \in {"idPkg:Story", "idPkg"}

RECURSIVE extractTextContent_ParagraphBreaks(_)
\* variant: a line break is added after every element
extractTextContent_ParagraphBreaks(elements) ==
    IF elements = <<>> THEN <<>>
    ELSE LET element == Head(elements)
         IN  (IF element.CharacterStyleRange # <<>>
                 THEN extractTextContent_ParagraphBreaks(element.CharacterStyleRange)
                 ELSE <<>>)
             \o Concat(element.Content)
             \o <<"\n">>
             \o extractTextContent_ParagraphBreaks(Tail(elements))

RECURSIVE extractTextContent(_)
\* IdmlParser.extractTextContent: every element's character-style ranges,
\* then its own Content strings, in order, with no separator
extractTextContent(elements) ==
    IF elements = <<>> THEN <<>>
    ELSE LET element == Head(elements)
         IN  (IF element.CharacterStyleRange # <<>>
                 THEN extractTextContent(element.CharacterStyleRange)
                 ELSE <<>>)
             \o Concat(element.Content)
             \o extractTextContent(Tail(elements))

RECURSIVE extractTextContentFromCharacters(_)
\* IdmlParser.extractTextContentFromCharacters
extractTextContentFromCharacters(characters) ==
    IF characters = <<>> THEN <<>>
    ELSE Concat(Head(characters).Content)
         \o extractTextContentFromCharacters(Tail(characters))

TextBox(storyId, content) ==
    [id |-> storyId, content |-> content, storyId |-> storyId]

\* the units IdmlParser.extractTextBoxes pushes for one story file
DirectBoxesOfStory(storyFile, doc) ==
    LET storyElement == doc.story
        storyId == StoryIdOf(storyFile)
        paraText == extractTextContent(storyElement.ParagraphStyleRange)
        charText == extractTextContentFromCharacters(storyElement.CharacterStyleRange)
        bareText == Join(storyElement.Content, <<" ">>)
    IN  IF ~HasStoryData(doc) THEN <<>>
        ELSE (IF storyElement.ParagraphStyleRange # <<>> /\ trim(paraText) # <<>>
                 THEN <<TextBox(storyId, paraText)>> ELSE <<>>)
          \o (IF storyElement.CharacterStyleRange # <<>> /\ trim(charText) # <<>>
                 THEN <<TextBox(storyId, charText)>> ELSE <<>>)
          \o (IF storyElement.Content # <<>> /\ trim(bareText) # <<>>
                 THEN <<TextBox(storyId, trim(bareText))>> ELSE <<>>)

RECURSIVE extractTextBoxesFrom(_, _)
extractTextBoxesFrom(zip, i) ==
    IF i > Len(zip) THEN <<>>
    ELSE (IF IsStoryFile(zip[i].name)
             THEN DirectBoxesOfStory(zip[i].name, zip[i].data.doc)
             ELSE <<>>)
         \o extractTextBoxesFrom(zip, i + 1)

\* IdmlParser.extractTextBoxes
extractTextBoxes(zip) == extractTextBoxesFrom(zip, 1)

\* parseXML rejects the text of some story (or spread) file
ParseThrows(zip) ==
    \E i \in 1..Len(zip) : IsStoryFile(zip[i].name) /\ ~zip[i].data.wellFormed

----------------------------------------------------------------------------
(* Tagged extraction: IdmlParserXML *)

RECURSIVE XML_charRangesText(_)
\* the inner loop of IdmlParserXML.extractTextContent: Content.join('') of
\* every character-style range that has Content
XML_charRangesText(charRanges) ==
    IF charRanges = <<>> THEN <<>>
    ELSE Concat(Head(charRanges).Content) \o XML_charRangesText(Tail(charRanges))

RECURSIVE XML_extractTextContent(_)
\* IdmlParserXML.extractTextContent: a newline after every paragraph
XML_extractTextContent(paragraphs) ==
    IF paragraphs = <<>> THEN <<>>
    ELSE XML_charRangesText(Head(paragraphs).CharacterStyleRange)
         \o <<"\n">>
         \o XML_extractTextContent(Tail(paragraphs))

\* IdmlParserXML.extractTextContentFromCharacters
XML_extractTextContentFromCharacters(characters) == XML_charRangesText(characters)

RECURSIVE extractTextFromXMLElement(_), extractTextFromNested(_)
\* IdmlParserXML.extractTextFromXMLElement
extractTextFromXMLElement(xmlElement) ==
    (IF xmlElement.ParagraphStyleRange # <<>>
        THEN XML_extractTextContent(xmlElement.ParagraphStyleRange) ELSE <<>>)
    \o (IF xmlElement.CharacterStyleRange # <<>>
        THEN XML_extractTextContentFromCharacters(xmlElement.CharacterStyleRange)
        ELSE <<>>)
    \o extractTextFromNested(xmlElement.XMLElement)

\* the loop over the nested tagged elements
extractTextFromNested(nestedElements) ==
    IF nestedElements = <<>> THEN <<>>
    ELSE extractTextFromXMLElement(Head(nestedElements))
         \o extractTextFromNested(Tail(nestedElements))

RECURSIVE XML_boxesOfElements(_, _)
\* one unit per top-level tagged element whose text is not blank
XML_boxesOfElements(storyId, xmlElements) ==
    IF xmlElements = <<>> THEN <<>>
    ELSE LET textContent == extractTextFromXMLElement(Head(xmlElements))
         IN  (IF trim(textContent) # <<>>
                 THEN <<TextBox(storyId, textContent)>> ELSE <<>>)
             \o XML_boxesOfElements(storyId, Tail(xmlElements))

\* the units IdmlParserXML.extractTextBoxes pushes for one story file
XMLBoxesOfStory(storyFile, doc) ==
    IF ~HasStoryData(doc) THEN <<>>
    ELSE XML_boxesOfElements(StoryIdOf(storyFile), doc.story.XMLElement)

RECURSIVE XML_extractTextBoxesFrom(_, _)
XML_extractTextBoxesFrom(zip, i) ==
    IF i > Len(zip) THEN <<>>
    ELSE (IF IsStoryFile(zip[i].name)
             THEN XMLBoxesOfStory(zip[i].name, zip[i].data.doc)
             ELSE <<>>)
         \o XML_extractTextBoxesFrom(zip, i + 1)

\* IdmlParserXML.extractTextBoxes
XML_extractTextBoxes(zip) == XML_extractTextBoxesFrom(zip, 1)

----------------------------------------------------------------------------
(* Font size *)

DefaultPointSize == 1200

\* fontSizeScale = 1 / expansionFactor, kept as the fraction 100 / percent
FontSizeScale(lang) == [num |-> 100, den |-> getExpansionFactor(lang)]

\* fontSizeScale !== 1.0
ScaleApplies(fontSizeScale) == fontSizeScale.num # fontSizeScale.den

\* Number.prototype.toFixed(2) of h * scale: nearest hundredth
toFixed2(h, fontSizeScale) ==
    [h  |-> (2 * h * fontSizeScale.num + fontSizeScale.den)
              \div (2 * fontSizeScale.den),
     dp |-> 2]

\* "Apply font size scaling": parseFloat(PointSize || '12') * scale, toFixed(2),
\* stored in the range's attributes; nothing when the range has no attributes
ScaleCharRange(charRange, fontSizeScale) ==
    IF ScaleApplies(fontSizeScale) /\ charRange.attrs # <<>>
    THEN LET a == charRange.attrs[1]
             currentSize == IF a.PointSize = <<>> THEN DefaultPointSize
                            ELSE a.PointSize[1].h
         IN  [charRange EXCEPT
                !.attrs = <<[a EXCEPT !.PointSize =
                                <<toFixed2(currentSize, fontSizeScale)>>]>>]
    ELSE charRange

----------------------------------------------------------------------------
(* Direct rewrite: IdmlParser *)

\* variant: the new content is written into every range of the first
\* paragraph
UpdateCharRanges_EveryRange(charRanges, i, newContent, fontSizeScale) ==
    [j \in 1..Len(charRanges) |->
        [ScaleCharRange(charRanges[j], fontSizeScale) EXCEPT
            !.Content = IF i = 0 THEN <<newContent>> ELSE << <<>> >>]]

\* the inner loop over one paragraph's character-style ranges (index i is
\* the paragraph's, 0-based as in the source)
UpdateCharRanges(charRanges, i, newContent, fontSizeScale) ==
    [j \in 1..Len(charRanges) |->
        [ScaleCharRange(charRanges[j], fontSizeScale) EXCEPT
            !.Content = IF i = 0 /\ j = 1 THEN <<newContent>> ELSE << <<>> >>]]

\* IdmlParser.updateTextInParagraphs
updateTextInParagraphs(paragraphs, newContent, fontSizeScale) ==
    [p \in 1..Len(paragraphs) |->
        IF paragraphs[p].CharacterStyleRange # <<>>
        THEN [paragraphs[p] EXCEPT
                !.CharacterStyleRange =
                    UpdateCharRanges(@, p - 1, newContent, fontSizeScale)]
        ELSE paragraphs[p]]

\* "Update story direction at the story level"
SetStoryDirection(story, textDirection) ==
    IF story.StoryPreference # <<>>
    THEN [story EXCEPT !.StoryPreference =
            <<[@[1] EXCEPT !.StoryDirection = <<textDirection>>]>> \o Tail(@)]
    ELSE story

RECURSIVE UpdateParagraphsForBoxes(_, _, _)
\* "for (const textBox of textBoxes) updateTextInParagraphs(...)"
UpdateParagraphsForBoxes(paragraphs, textBoxes, fontSizeScale) ==
    IF textBoxes = <<>> THEN paragraphs
    ELSE UpdateParagraphsForBoxes(
            updateTextInParagraphs(paragraphs, Head(textBoxes).content, fontSizeScale),
            Tail(textBoxes), fontSizeScale)

\* xml2js Builder.buildObject: the text the builder writes for a tree
buildObject(doc) == [wellFormed |-> TRUE, fmt |-> "xml2js", doc |-> doc, bytes |-> 0]

\* IdmlParser.updateStoryContentWithDirection (originalContent is well formed)
updateStoryContentWithDirection(originalContent, textBoxes, textDirection, fontSizeScale) ==
    LET parsed == originalContent.doc
        directed == SetStoryDirection(parsed.story, textDirection)
        story == IF directed.ParagraphStyleRange # <<>>
                 THEN [directed EXCEPT !.ParagraphStyleRange =
                         UpdateParagraphsForBoxes(@, textBoxes, fontSizeScale)]
                 ELSE directed
    IN  IF parsed.root # "idPkg:Story" THEN originalContent
        ELSE buildObject([parsed EXCEPT !.story = story])

\* textBoxes.filter(tb => tb.storyId === storyId)
RelevantTextBoxes(textBoxes, storyId) ==
    SelectSeq(textBoxes, LAMBDA tb : tb.storyId = storyId)

\* IdmlParser.updateStoryFilesWithLanguage
\* variant: every story file is rebuilt, with or without relevant units
updateStoryFilesWithLanguage_EveryStory(zip, textBoxes, lang) ==
    [i \in 1..Len(zip) |->
        LET relevantTextBoxes == RelevantTextBoxes(textBoxes, StoryIdOf(zip[i].name))
        IN  IF IsStoryFile(zip[i].name)
            THEN [zip[i] EXCEPT !.data =
                    updateStoryContentWithDirection(@, relevantTextBoxes,
                        getTextDirection(lang), FontSizeScale(lang))]
            ELSE zip[i]]

updateStoryFilesWithLanguage(zip, textBoxes, lang) ==
    [i \in 1..Len(zip) |->
        LET relevantTextBoxes == RelevantTextBoxes(textBoxes, StoryIdOf(zip[i].name))
        IN  IF IsStoryFile(zip[i].name) /\ relevantTextBoxes # <<>>
            THEN [zip[i] EXCEPT !.data =
                    updateStoryContentWithDirection(@, relevantTextBoxes,
                        getTextDirection(lang), FontSizeScale(lang))]
            ELSE zip[i]]

----------------------------------------------------------------------------
(* Tagged rewrite: IdmlParserXML *)

RECURSIVE XML_updateCharRanges(_, _, _, _)
\* the loop over one paragraph's character-style ranges: scale every range,
\* write newContent into the first range reached while contentInserted is
\* false, clear the others
XML_updateCharRanges(charRanges, newContent, fontSizeScale, contentInserted) ==
    IF charRanges = <<>>
    THEN [out |-> <<>>, contentInserted |-> contentInserted]
    ELSE LET charRange ==
                [ScaleCharRange(Head(charRanges), fontSizeScale) EXCEPT
                    !.Content = IF ~contentInserted THEN <<newContent>>
                                ELSE << <<>> >>]
             rest == XML_updateCharRanges(Tail(charRanges), newContent,
                                          fontSizeScale, TRUE)
         IN  [out |-> <<charRange>> \o rest.out, contentInserted |-> TRUE]

RECURSIVE XML_updateParagraphs(_, _, _, _)
\* the loop over a tagged element's paragraphs
XML_updateParagraphs(paragraphs, newContent, fontSizeScale, contentInserted) ==
    IF paragraphs = <<>>
    THEN [out |-> <<>>, contentInserted |-> contentInserted]
    ELSE LET para == Head(paragraphs)
             done == IF para.CharacterStyleRange # <<>>
                     THEN XML_updateCharRanges(para.CharacterStyleRange,
                              newContent, fontSizeScale, contentInserted)
                     ELSE [out |-> <<>>, contentInserted |-> contentInserted]
             rest == XML_updateParagraphs(Tail(paragraphs), newContent,
                                          fontSizeScale, done.contentInserted)
         IN  [out |-> <<[para EXCEPT !.CharacterStyleRange = done.out]>> \o rest.out,
              contentInserted |-> rest.contentInserted]

RECURSIVE updateTextInXMLElement(_, _, _), XML_updateElements(_, _, _, _)
\* IdmlParserXML.updateTextInXMLElement: contentInserted starts false in
\* every call and is not returned to the caller
updateTextInXMLElement(xmlElements, newContent, fontSizeScale) ==
    XML_updateElements(xmlElements, newContent, fontSizeScale, FALSE).out

\* the loop "for (const xmlElement of elements)" of one call
XML_updateElements(elements, newContent, fontSizeScale, contentInserted) ==
    IF elements = <<>>
    THEN [out |-> <<>>, contentInserted |-> contentInserted]
    ELSE LET xmlElement == Head(elements)
             paras == IF xmlElement.ParagraphStyleRange # <<>>
                      THEN XML_updateParagraphs(xmlElement.ParagraphStyleRange,
                               newContent, fontSizeScale, contentInserted)
                      ELSE [out |-> <<>>, contentInserted |-> contentInserted]
             nested == IF xmlElement.XMLElement # <<>> /\ ~paras.contentInserted
                       THEN updateTextInXMLElement(xmlElement.XMLElement,
                                newContent, fontSizeScale)
                       ELSE xmlElement.XMLElement
             rest == XML_updateElements(Tail(elements), newContent,
                                        fontSizeScale, paras.contentInserted)
         IN  [out |-> <<[xmlElement EXCEPT !.ParagraphStyleRange = paras.out,
                                           !.XMLElement = nested]>> \o rest.out,
              contentInserted |-> rest.contentInserted]

RECURSIVE XML_updateElementsForBoxes(_, _, _)
\* "for (const textBox of textBoxes) updateTextInXMLElement(...)"
XML_updateElementsForBoxes(xmlElements, textBoxes, fontSizeScale) ==
    IF textBoxes = <<>> THEN xmlElements
    ELSE XML_updateElementsForBoxes(
            updateTextInXMLElement(xmlElements, Head(textBoxes).content, fontSizeScale),
            Tail(textBoxes), fontSizeScale)

\* IdmlParserXML.updateXMLStoryContentWithDirection (originalContent is well formed)
updateXMLStoryContentWithDirection(originalContent, textBoxes, textDirection, fontSizeScale) ==
    LET parsed == originalContent.doc
        directed == SetStoryDirection(parsed.story, textDirection)
        storyElement == IF directed.XMLElement # <<>>
                        THEN [directed EXCEPT !.XMLElement =
                                XML_updateElementsForBoxes(@, textBoxes, fontSizeScale)]
                        ELSE directed
    IN  IF ~HasStoryData(parsed) THEN originalContent
        ELSE buildObject([parsed EXCEPT !.story = storyElement])

\* IdmlParserXML.updateStoryFilesWithLanguage
XML_updateStoryFilesWithLanguage(zip, textBoxes, lang) ==
    [i \in 1..Len(zip) |->
        LET relevantTextBoxes == RelevantTextBoxes(textBoxes, StoryIdOf(zip[i].name))
        IN  IF IsStoryFile(zip[i].name) /\ relevantTextBoxes # <<>>
            THEN [zip[i] EXCEPT !.data =
                    updateXMLStoryContentWithDirection(@, relevantTextBoxes,
                        getTextDirection(lang), FontSizeScale(lang))]
            ELSE zip[i]]

----------------------------------------------------------------------------
(* The output archive *)

DirTokens == {"Stories/", "Empty/"}

NoDoc == [root |-> "other",
          story |-> [StoryPreference |-> <<>>, ParagraphStyleRange |-> <<>>,
                     CharacterStyleRange |-> <<>>, Content |-> <<>>,
                     XMLElement |-> <<>>]]

DirData == [wellFormed |-> FALSE, fmt |-> "dir", doc |-> NoDoc, bytes |-> 0]

\* JSZip's parent folder of an entry name: <<>> when the name has no folder
ParentFolder(name) ==
    IF Len(name) >= 2 /\ name[1] \in DirTokens THEN <<name[1]>> ELSE <<>>

HasEntry(zip, name) == \E i \in 1..Len(zip) : zip[i].name = name

\* newZip.file(filename, content): creates the parent folder entry when the
\* archive has none yet, then sets the entry
ZipFile(zip, name, data) ==
    LET parent == ParentFolder(name)
        withFolder == IF parent # <<>> /\ ~HasEntry(zip, parent)
                      THEN Append(zip, [name |-> parent, dir |-> TRUE, data |-> DirData])
                      ELSE zip
    IN  IF HasEntry(withFolder, name)
        THEN [i \in 1..Len(withFolder) |->
                IF withFolder[i].name = name
                THEN [name |-> name, dir |-> FALSE, data |-> data]
                ELSE withFolder[i]]
        ELSE Append(withFolder, [name |-> name, dir |-> FALSE, data |-> data])

RECURSIVE CopyAllFiles(_, _, _)
\* "Copy all files from original zip": every entry that is not a directory
CopyAllFiles(zip, i, newZip) ==
    IF i > Len(zip) THEN newZip
    ELSE CopyAllFiles(zip, i + 1,
            IF ~zip[i].dir THEN ZipFile(newZip, zip[i].name, zip[i].data)
            ELSE newZip)

\* a story file with a relevant unit is parsed by the rewrite
RewriteThrows(zip, textBoxes) ==
    \E i \in 1..Len(zip) :
        /\ IsStoryFile(zip[i].name)
        /\ ~zip[i].dir
        /\ RelevantTextBoxes(textBoxes, StoryIdOf(zip[i].name)) # <<>>
        /\ ~zip[i].data.wellFormed

\* IdmlParser.updateTextBoxesWithLanguage
updateTextBoxesWithLanguage(zip, textBoxes, lang) ==
    updateStoryFilesWithLanguage(CopyAllFiles(zip, 1, <<>>), textBoxes, lang)

\* IdmlParserXML.updateTextBoxesWithLanguage
XML_updateTextBoxesWithLanguage(zip, textBoxes, lang) ==
    XML_updateStoryFilesWithLanguage(CopyAllFiles(zip, 1, <<>>), textBoxes, lang)

----------------------------------------------------------------------------
(* TranslationService: merge steps *)

Ids(textBoxes) == {textBoxes[i].id : i \in 1..Len(textBoxes)}

\* the combine with the precedence reversed: a Tagged unit replaces the
\* Direct unit of the same id
combine_TaggedWins(directUnits, taggedUnits) ==
    SelectSeq(directUnits, LAMBDA tb : tb.id \notin Ids(taggedUnits)) \o taggedUnits

\* "Combine text boxes from both parsers, removing duplicates by ID"
combine(directUnits, taggedUnits) ==
    LET existingIds == Ids(directUnits)
    IN  directUnits \o SelectSeq(taggedUnits, LAMBDA tb : tb.id \notin existingIds)

\* translationMap.get(id) after the loop of translationMap.set: <<>> is
\* undefined, otherwise the content of the last pair with that id
TranslationMapGet(translatedTextBoxes, id) ==
    LET hits == {i \in 1..Len(translatedTextBoxes) : translatedTextBoxes[i].id = id}
    IN  IF hits = {} THEN <<>>
        ELSE <<translatedTextBoxes[SetMax(hits)].translatedContent>>

\* the callback of originalTextBoxes.map: "if (translatedContent)"
MergeOne(textBox, translatedTextBoxes) ==
    LET translatedContent == TranslationMapGet(translatedTextBoxes, textBox.id)
    IN  IF translatedContent # <<>> /\ translatedContent[1] # <<>>
        THEN [textBox EXCEPT !.content = translatedContent[1]]
        ELSE textBox

\* a merge that keeps only the units that have a translation
mergeTranslations_DropUntranslated(originalTextBoxes, translatedTextBoxes) ==
    LET kept == SelectSeq(originalTextBoxes,
                    LAMBDA tb : TranslationMapGet(translatedTextBoxes, tb.id) # <<>>)
    IN  [i \in 1..Len(kept) |-> MergeOne(kept[i], translatedTextBoxes)]

\* variant: the translated content is appended to the unit's content
mergeTranslations_Appending(originalTextBoxes, translatedTextBoxes) ==
    [i \in 1..Len(originalTextBoxes) |->
        LET textBox == originalTextBoxes[i]
            translatedContent == TranslationMapGet(translatedTextBoxes, textBox.id)
        IN  IF translatedContent # <<>> /\ translatedContent[1] # <<>>
            THEN [textBox EXCEPT !.content = @ \o translatedContent[1]]
            ELSE textBox]

\* TranslationService.mergeTranslations
mergeTranslations(originalTextBoxes, translatedTextBoxes) ==
    [i \in 1..Len(originalTextBoxes) |->
        MergeOne(originalTextBoxes[i], translatedTextBoxes)]

\* variant: a unit counts as Direct when its content is that of a Direct unit
StandardSubset_ByContent(updated, standard) ==
    SelectSeq(updated,
        LAMBDA tb : \E i \in 1..Len(standard) : standard[i].content = tb.content)

\* "Separate standard and XML text boxes based on original source"
StandardSubset(updated, standard) ==
    SelectSeq(updated, LAMBDA tb : tb.id \in Ids(standard))

\* variant: the Tagged pass is handed every unit
XmlSubset_EveryUnit(updated, standard) == updated

XmlSubset(updated, standard) ==
    SelectSeq(updated, LAMBDA tb : tb.id \notin Ids(standard))

----------------------------------------------------------------------------
(* Bounds of the input domain *)

MaxParas == 2       \* paragraph-style ranges directly under a story
MaxRuns == 2        \* character-style ranges in a paragraph
MaxElems == 2       \* tagged elements directly under a story
MaxDepth == 1       \* nesting depth of tagged elements
MaxUnits == 2       \* length of the unit lists given to the merge steps
MaxPairs == 2       \* length of the translated-pair list
MaxIndex == 2       \* largest startIndex / endIndex of a submission
MaxAttempts == 3    \* largest maxAttempts of a polling call
MaxCalls == 3       \* number of calls made on one parser object

----------------------------------------------------------------------------
(* Input domain: xml2js trees *)

PointSizeText(h, dp) == [h |-> h, dp |-> dp]

\* the "$" of a character-style range
AttrsOf(kind) ==
    CASE kind = "none"   -> <<>>
      [] kind = "noSize" -> <<[PointSize |-> <<>>]>>
      [] kind = "size12" -> <<[PointSize |-> <<PointSizeText(1200, 0)>>]>>
      [] kind = "size10.5" -> <<[PointSize |-> <<PointSizeText(1050, 1)>>]>>

AttrKinds == {"none", "noSize", "size12", "size10.5"}

CharRange(attrs, content) ==
    [attrs |-> attrs, CharacterStyleRange |-> <<>>, Content |-> content]

Paragraph(charRanges) ==
    [attrs |-> <<>>, CharacterStyleRange |-> charRanges, Content |-> <<>>]

ContentKinds == {"all", "firstOnly", "firstOnlyAbsent", "twoNodes", "blank"}

\* the Content array of a run: first is the first run of the first paragraph
RunContent(kind, first) ==
    CASE kind = "all"             -> IF first THEN << <<"a">> >> ELSE << <<"b">> >>
      [] kind = "firstOnly"       -> IF first THEN << <<"a">> >> ELSE << <<>> >>
      [] kind = "firstOnlyAbsent" -> IF first THEN << <<"a">> >> ELSE <<>>
      [] kind = "twoNodes"        -> IF first THEN << <<"a">>, <<"b">> >> ELSE << <<>> >>
      [] kind = "blank"           -> << <<" ">> >>

Paragraphs(nParas, r1, rOther, kind, attrs) ==
    [p \in 1..nParas |->
        Paragraph([j \in 1..(IF p = 1 THEN r1 ELSE rOther) |->
                      CharRange(attrs, RunContent(kind, p = 1 /\ j = 1))])]

StoryPreferences ==
    {<<>>, <<[StoryDirection |-> <<LeftToRightDirection>>]>>,
           <<[StoryDirection |-> <<RightToLeftDirection>>]>>}

PrefLTR == <<[StoryDirection |-> <<LeftToRightDirection>>]>>

StoryElement(pref, paras, chars, content, xml) ==
    [StoryPreference |-> pref, ParagraphStyleRange |-> paras,
     CharacterStyleRange |-> chars, Content |-> content, XMLElement |-> xml]

Doc(root, story) == [root |-> root, story |-> story]

Extras == {"none", "chars", "bare"}

\* a story with paragraphs and, for "chars"/"bare", a second text structure
\* directly under the story
DirectStory(pref, paras, extra, attrs) ==
    StoryElement(pref, paras,
        IF extra = "chars" THEN <<CharRange(attrs, << <<"c">> >>)>> ELSE <<>>,
        IF extra = "bare" THEN << <<"d">> >> ELSE <<>>,
        <<>>)

DirectShapeDocs ==
    {Doc("idPkg:Story",
         DirectStory(PrefLTR, Paragraphs(n, r1, rO, k, AttrsOf("size12")), e,
                     AttrsOf("size12"))) :
        n \in 0..MaxParas, r1 \in 0..MaxRuns, rO \in 0..MaxRuns,
        k \in ContentKinds, e \in Extras}

DirectFormatDocs ==
    {Doc(root,
         DirectStory(pref, Paragraphs(n, 2, 1, "all", AttrsOf(a)), e, AttrsOf(a))) :
        root \in {"idPkg:Story", "idPkg", "other"}, pref \in StoryPreferences,
        n \in 1..2, a \in AttrKinds, e \in Extras}

TaggedElement(paras, chars, nested) ==
    [ParagraphStyleRange |-> paras, CharacterStyleRange |-> chars,
     XMLElement |-> nested]

OwnKinds == {"none", "paras", "twoParas", "emptyPara", "chars"}

A12 == AttrsOf("size12")

\* a tagged element with its own text structure and the given nested elements
Tagged(own, nested) ==
    CASE own = "none"      -> TaggedElement(<<>>, <<>>, nested)
      [] own = "paras"     ->
            TaggedElement(<<Paragraph(<<CharRange(A12, << <<"a">> >>),
                                        CharRange(A12, << <<"b">> >>)>>)>>,
                          <<>>, nested)
      [] own = "twoParas"  ->
            TaggedElement(<<Paragraph(<<CharRange(A12, << <<"a">> >>)>>),
                            Paragraph(<<CharRange(A12, << <<"b">> >>)>>)>>,
                          <<>>, nested)
      [] own = "emptyPara" -> TaggedElement(<<Paragraph(<<>>)>>, <<>>, nested)
      [] own = "chars"     ->
            TaggedElement(<<>>, <<CharRange(A12, << <<"c">> >>)>>, nested)

RECURSIVE TaggedElems(_)
\* tagged elements nested at most d deep
TaggedElems(d) ==
    IF d = 0 THEN {Tagged(o, <<>>) : o \in OwnKinds}
    ELSE TaggedElems(d - 1)
         \cup {Tagged(o, <<c>>) : o \in {"none", "paras", "emptyPara"},
                                   c \in TaggedElems(d - 1)}

Siblings == {Tagged("paras", <<>>), Tagged("chars", <<>>)}

\* the XMLElement array of a story: a first element followed by k siblings
TaggedLists ==
    {<<e>> \o [i \in 1..k |-> s] :
        e \in TaggedElems(MaxDepth), s \in Siblings, k \in 0..(MaxElems - 1)}

TaggedDocs ==
    {Doc(root, StoryElement(pref, <<>>, <<>>, <<>>, xml)) :
        root \in {"idPkg:Story", "idPkg"},
        pref \in {<<>>, PrefLTR}, xml \in TaggedLists}

\* stories in which both extractors find text
MixedDocs ==
    {Doc("idPkg:Story",
         StoryElement(PrefLTR, Paragraphs(n, 1, 1, "all", A12), <<>>, <<>>, xml)) :
        n \in 0..1, xml \in {<<Tagged("paras", <<>>)>>,
                             <<Tagged("paras", <<>>), Tagged("chars", <<>>)>>}}

SimpleDirectDoc ==
    Doc("idPkg:Story",
        DirectStory(PrefLTR,
            <<Paragraph(<<CharRange(A12, << <<"e">> >>)>>)>>, "none", A12))

SimpleTaggedDoc ==
    Doc("idPkg:Story",
        StoryElement(PrefLTR, <<>>, <<>>, <<>>, <<Tagged("paras", <<>>)>>))

BlankDoc ==
    Doc("idPkg:Story",
        DirectStory(PrefLTR,
            <<Paragraph(<<CharRange(A12, << <<" ">> >>)>>)>>, "none", A12))

----------------------------------------------------------------------------
(* Input domain: packages *)

XmlData(doc) == [wellFormed |-> TRUE, fmt |-> "orig", doc |-> doc, bytes |-> 0]

BinData(b) == [wellFormed |-> FALSE, fmt |-> "bin", doc |-> NoDoc, bytes |-> b]

MalformedXml == [wellFormed |-> FALSE, fmt |-> "orig", doc |-> NoDoc, bytes |-> 0]

File(name, data) == [name |-> name, dir |-> FALSE, data |-> data]

Folder(name) == [name |-> name, dir |-> TRUE, data |-> DirData]

StoryPath(u) == <<"Stories/", "Story_", u, ".xml">>

Story1 == <<"Story_", "u1">>
Story2 == <<"Story_", "u2">>

\* mimetype, designmap.xml, optional folder entries, two story files
Package(folders, data1, data2) ==
    <<File(<<"mimetype">>, BinData(1)),
      File(<<"designmap", ".xml">>, XmlData(NoDoc))>>
    \o (IF "Stories/" \in folders THEN <<Folder(<<"Stories/">>)>> ELSE <<>>)
    \o (IF "Empty/" \in folders THEN <<Folder(<<"Empty/">>)>> ELSE <<>>)
    \o <<File(StoryPath("u1"), data1), File(StoryPath("u2"), data2)>>

\* two story paths with a ".xml" inside the name
InnerXmlPath1 == <<"Stories/", "Story_", ".xml", "a", ".xml">>
InnerXmlPath2 == <<"Stories/", "Story_", "a", ".xml", ".xml">>

\* mimetype, designmap.xml and two story files under the given paths
NamedPackage(path1, path2, data1, data2) ==
    <<File(<<"mimetype">>, BinData(1)),
      File(<<"designmap", ".xml">>, XmlData(NoDoc)),
      File(path1, data1), File(path2, data2)>>

\* a story with one paragraph, one range, content "a"
OtherDirectDoc ==
    Doc("idPkg:Story",
        DirectStory(PrefLTR, Paragraphs(1, 1, 1, "all", A12), "none", A12))

Story1Docs == DirectShapeDocs \cup DirectFormatDocs \cup TaggedDocs \cup MixedDocs

LanguageCodes == {SUPPORTED_LANGUAGES[i].code : i \in 1..Len(SUPPORTED_LANGUAGES)}

\* the invocations the model starts from: [pkg, lang]
Inputs ==
    {[pkg |-> Package({}, XmlData(d), XmlData(SimpleDirectDoc)), lang |-> l] :
        d \in Story1Docs, l \in {"en", "fa"}}
    \cup
    {[pkg |-> Package(f, XmlData(d1), d2), lang |-> "fa"] :
        f \in SUBSET DirTokens,
        d1 \in {SimpleDirectDoc, SimpleTaggedDoc, BlankDoc},
        d2 \in {XmlData(SimpleDirectDoc), XmlData(SimpleTaggedDoc),
                XmlData(BlankDoc), MalformedXml}}
    \cup
    {[pkg |-> Package({}, XmlData(SimpleDirectDoc), XmlData(SimpleTaggedDoc)),
      lang |-> l] : l \in LanguageCodes \cup {"xx", "FA", "Fa", "ZH", "XX"}}
    \cup
    {[pkg |-> NamedPackage(p1, p2, XmlData(SimpleDirectDoc), XmlData(d2)),
      lang |-> "en"] :
        p1 \in {StoryPath("u1"), InnerXmlPath1}, p2 \in {StoryPath("u2"), InnerXmlPath2},
        d2 \in {OtherDirectDoc, SimpleTaggedDoc}}

Pair(id, content) == [id |-> id, translatedContent |-> content]

\* what the webhook returns for the document
Responses ==
    {<<>>, <<Pair(Story1, <<"x">>)>>,
     <<Pair(Story1, <<"x">>), Pair(Story2, <<"y">>)>>}

----------------------------------------------------------------------------
(* One invocation of submitIdmlForTranslation or getCompletedTranslation *)

\* the index arguments: undefined, or a whole number
Indices == {<<>>} \cup {<<i>> : i \in (0 - 1)..MaxIndex}

\* the ranges of the submissions of the pipeline
PipelineRanges == {<<<<>>, <<>>>>, <<<<0>>, <<0>>>>, <<<<1>>, <<>>>>, <<<<MaxIndex>>, <<MaxIndex>>>>}

Init ==
    \E in \in Inputs, o \in {"submit", "complete"},
       range \in PipelineRanges :
        /\ op = o
        /\ startIndex = IF o = "submit" THEN range[1] ELSE <<>>
        /\ endIndex = IF o = "submit" THEN range[2] ELSE <<>>
        /\ NotPolling
        /\ calls = <<>>
        /\ pc = IF o = "complete" THEN "fetch" ELSE "loadStd"
        /\ idmlBuffer = in.pkg
        /\ targetLanguage = in.lang
        /\ translated = <<>>
        /\ parserZip = <<>>
        /\ parserXMLZip = <<>>
        /\ standardBoxes = <<>>
        /\ xmlBoxes = <<>>
        /\ allTextBoxes = <<>>
        /\ updatedTextBoxes = <<>>
        /\ standardTextBoxes = <<>>
        /\ xmlTextBoxes = <<>>
        /\ updatedIdmlBuffer = <<>>
        /\ submitted = <<>>
        /\ failure = ""

\* webhookService.checkTranslationStatus
FetchTranslation ==
    /\ pc = "fetch"
    /\ \E r \in Responses : translated' = r
    /\ pc' = "loadStd"
    /\ UNCHANGED <<extraVars, op, idmlBuffer, targetLanguage, parserZip, parserXMLZip,
                   standardBoxes, xmlBoxes, allTextBoxes, updatedTextBoxes,
                   standardTextBoxes, xmlTextBoxes, updatedIdmlBuffer,
                   submitted, failure>>

\* idmlParser.loadIdmlFile(buffer)
LoadStandard ==
    /\ pc = "loadStd"
    /\ parserZip' = <<idmlBuffer>>
    /\ pc' = "parseStd"
    /\ UNCHANGED <<extraVars, op, idmlBuffer, targetLanguage, translated, parserXMLZip,
                   standardBoxes, xmlBoxes, allTextBoxes, updatedTextBoxes,
                   standardTextBoxes, xmlTextBoxes, updatedIdmlBuffer,
                   submitted, failure>>

\* idmlParser.parseDocument()
ParseStandard ==
    /\ pc = "parseStd"
    /\ IF ParseThrows(parserZip[1])
       THEN /\ failure' = "parse"
            /\ pc' = "failed"
            /\ UNCHANGED standardBoxes
       ELSE /\ standardBoxes' = extractTextBoxes(parserZip[1])
            /\ pc' = "loadXML"
            /\ UNCHANGED failure
    /\ UNCHANGED <<extraVars, op, idmlBuffer, targetLanguage, translated, parserZip,
                   parserXMLZip, xmlBoxes, allTextBoxes, updatedTextBoxes,
                   standardTextBoxes, xmlTextBoxes, updatedIdmlBuffer, submitted>>

\* idmlParserXML.loadIdmlFile(buffer)
LoadXML ==
    /\ pc = "loadXML"
    /\ parserXMLZip' = <<idmlBuffer>>
    /\ pc' = "parseXML"
    /\ UNCHANGED <<extraVars, op, idmlBuffer, targetLanguage, translated, parserZip,
                   standardBoxes, xmlBoxes, allTextBoxes, updatedTextBoxes,
                   standardTextBoxes, xmlTextBoxes, updatedIdmlBuffer,
                   submitted, failure>>

\* idmlParserXML.parseDocument()
ParseXML ==
    /\ pc = "parseXML"
    /\ IF ParseThrows(parserXMLZip[1])
       THEN /\ failure' = "parse"
            /\ pc' = "failed"
            /\ UNCHANGED xmlBoxes
       ELSE /\ xmlBoxes' = XML_extractTextBoxes(parserXMLZip[1])
            /\ pc' = "combine"
            /\ UNCHANGED failure
    /\ UNCHANGED <<extraVars, op, idmlBuffer, targetLanguage, translated, parserZip,
                   parserXMLZip, standardBoxes, allTextBoxes, updatedTextBoxes,
                   standardTextBoxes, xmlTextBoxes, updatedIdmlBuffer, submitted>>

\* "Combine text boxes from both parsers, removing duplicates by ID"
Combine ==
    /\ pc = "combine"
    /\ allTextBoxes' = combine(standardBoxes, xmlBoxes)
    /\ pc' = IF op = "submit" THEN "submit" ELSE "merge"
    /\ UNCHANGED <<extraVars, op, idmlBuffer, targetLanguage, translated, parserZip,
                   parserXMLZip, standardBoxes, xmlBoxes, updatedTextBoxes,
                   standardTextBoxes, xmlTextBoxes, updatedIdmlBuffer,
                   submitted, failure>>

\* variant: the request is sent without the check for an empty unit list
\* Array.prototype.slice(start, end) on a list, indices counted from 0
slice(list, start, end) ==
    LET n    == Len(list)
        from == IF start < 0 THEN SetMax({n + start, 0}) ELSE SetMin({start, n})
        to   == IF end < 0 THEN SetMax({n + end, 0}) ELSE SetMin({end, n})
    IN  IF from < to THEN [i \in 1..(to - from) |-> list[from + i]] ELSE <<>>

\* variant: endIndex is taken as the exclusive end of the range
textBoxesToSubmit_EndExclusive(textBoxes, first, last) ==
    IF first # <<>> \/ last # <<>>
    THEN slice(textBoxes,
               IF first # <<>> THEN first[1] ELSE 0,
               IF last # <<>> THEN last[1] ELSE Len(textBoxes))
    ELSE textBoxes

\* "Filter text boxes by index range if specified"
textBoxesToSubmit(textBoxes, first, last) ==
    IF first # <<>> \/ last # <<>>
    THEN slice(textBoxes,
               IF first # <<>> THEN first[1] ELSE 0,
               IF last # <<>> THEN last[1] + 1 ELSE Len(textBoxes))
    ELSE textBoxes

Submit_NoEmptyCheck ==
    /\ pc = "submit"
    /\ submitted' = allTextBoxes
    /\ pc' = "done"
    /\ UNCHANGED <<extraVars, op, idmlBuffer, targetLanguage, translated, parserZip,
                   parserXMLZip, standardBoxes, xmlBoxes, allTextBoxes,
                   updatedTextBoxes, standardTextBoxes, xmlTextBoxes,
                   updatedIdmlBuffer, failure>>

\* submitIdmlForTranslation after the combine: the empty check and the request
Submit ==
    /\ pc = "submit"
    /\ IF allTextBoxes = <<>>
       THEN /\ failure' = "No text boxes found in the IDML file"
            /\ pc' = "failed"
            /\ UNCHANGED submitted
       ELSE IF textBoxesToSubmit(allTextBoxes, startIndex, endIndex) = <<>>
       THEN /\ failure' = "No text boxes found in range"
            /\ pc' = "failed"
            /\ UNCHANGED submitted
       ELSE /\ submitted' = textBoxesToSubmit(allTextBoxes, startIndex, endIndex)
            /\ pc' = "done"
            /\ UNCHANGED failure
    /\ UNCHANGED <<extraVars, op, idmlBuffer, targetLanguage, translated, parserZip,
                   parserXMLZip, standardBoxes, xmlBoxes, allTextBoxes,
                   updatedTextBoxes, standardTextBoxes, xmlTextBoxes,
                   updatedIdmlBuffer>>

\* "Update text boxes with translated content"
MergeTranslations ==
    /\ pc = "merge"
    /\ updatedTextBoxes' = mergeTranslations(allTextBoxes, translated)
    /\ pc' = "partition"
    /\ UNCHANGED <<extraVars, op, idmlBuffer, targetLanguage, translated, parserZip,
                   parserXMLZip, standardBoxes, xmlBoxes, allTextBoxes,
                   standardTextBoxes, xmlTextBoxes, updatedIdmlBuffer,
                   submitted, failure>>

\* "Separate standard and XML text boxes based on original source"
Partition ==
    /\ pc = "partition"
    /\ standardTextBoxes' = StandardSubset(updatedTextBoxes, standardBoxes)
    /\ xmlTextBoxes' = XmlSubset(updatedTextBoxes, standardBoxes)
    /\ updatedIdmlBuffer' = idmlBuffer
    /\ pc' = "directLoad"
    /\ UNCHANGED <<extraVars, op, idmlBuffer, targetLanguage, translated, parserZip,
                   parserXMLZip, standardBoxes, xmlBoxes, allTextBoxes,
                   updatedTextBoxes, submitted, failure>>

\* "if (standardTextBoxes.length > 0)" and idmlParser.loadIdmlFile
DirectLoad ==
    /\ pc = "directLoad"
    /\ IF standardTextBoxes # <<>>
       THEN parserZip' = <<updatedIdmlBuffer>> /\ pc' = "directRewrite"
       ELSE UNCHANGED parserZip /\ pc' = "xmlLoad"
    /\ UNCHANGED <<extraVars, op, idmlBuffer, targetLanguage, translated, parserXMLZip,
                   standardBoxes, xmlBoxes, allTextBoxes, updatedTextBoxes,
                   standardTextBoxes, xmlTextBoxes, updatedIdmlBuffer,
                   submitted, failure>>

\* idmlParser.updateTextBoxesWithLanguage(standardTextBoxes, targetLanguage)
DirectRewrite ==
    /\ pc = "directRewrite"
    /\ IF RewriteThrows(parserZip[1], standardTextBoxes)
       THEN /\ failure' = "parse"
            /\ pc' = "failed"
            /\ UNCHANGED updatedIdmlBuffer
       ELSE /\ updatedIdmlBuffer' =
                  updateTextBoxesWithLanguage(parserZip[1], standardTextBoxes,
                                              targetLanguage)
            /\ pc' = "xmlLoad"
            /\ UNCHANGED failure
    /\ UNCHANGED <<extraVars, op, idmlBuffer, targetLanguage, translated, parserZip,
                   parserXMLZip, standardBoxes, xmlBoxes, allTextBoxes,
                   updatedTextBoxes, standardTextBoxes, xmlTextBoxes, submitted>>

\* "if (xmlTextBoxes.length > 0)" and idmlParserXML.loadIdmlFile
XMLLoad ==
    /\ pc = "xmlLoad"
    /\ IF xmlTextBoxes # <<>>
       THEN parserXMLZip' = <<updatedIdmlBuffer>> /\ pc' = "xmlRewrite"
       ELSE UNCHANGED parserXMLZip /\ pc' = "done"
    /\ UNCHANGED <<extraVars, op, idmlBuffer, targetLanguage, translated, parserZip,
                   standardBoxes, xmlBoxes, allTextBoxes, updatedTextBoxes,
                   standardTextBoxes, xmlTextBoxes, updatedIdmlBuffer,
                   submitted, failure>>

\* idmlParserXML.updateTextBoxesWithLanguage(xmlTextBoxes, targetLanguage)
XMLRewrite ==
    /\ pc = "xmlRewrite"
    /\ IF RewriteThrows(parserXMLZip[1], xmlTextBoxes)
       THEN /\ failure' = "parse"
            /\ pc' = "failed"
            /\ UNCHANGED updatedIdmlBuffer
       ELSE /\ updatedIdmlBuffer' =
                  XML_updateTextBoxesWithLanguage(parserXMLZip[1], xmlTextBoxes,
                                                  targetLanguage)
            /\ pc' = "done"
            /\ UNCHANGED failure
    /\ UNCHANGED <<extraVars, op, idmlBuffer, targetLanguage, translated, parserZip,
                   parserXMLZip, standardBoxes, xmlBoxes, allTextBoxes,
                   updatedTextBoxes, standardTextBoxes, xmlTextBoxes, submitted>>

Next ==
    \/ FetchTranslation
    \/ LoadStandard
    \/ ParseStandard
    \/ LoadXML
    \/ ParseXML
    \/ Combine
    \/ Submit
    \/ MergeTranslations
    \/ Partition
    \/ DirectLoad
    \/ DirectRewrite
    \/ XMLLoad
    \/ XMLRewrite

Spec == Init /\ [][Next]_vars

----------------------------------------------------------------------------
(* The merge steps on arbitrary unit lists *)

RECURSIVE SeqsUpTo(_, _)
\* the sequences over S of length at most n
SeqsUpTo(S, n) ==
    IF n = 0 THEN {<<>>}
    ELSE LET shorter == SeqsUpTo(S, n - 1)
         IN  shorter \cup {Append(q, x) : q \in shorter, x \in S}

DirectUnits == {TextBox(id, c) : id \in {Story1, Story2}, c \in {<<"a">>, <<"c">>}}

TaggedUnits == {TextBox(id, <<"b">>) : id \in {Story1, Story2}}

TranslatedPairs == {Pair(id, c) : id \in {Story1, Story2}, c \in {<<>>, <<"x">>}}

InitMerge ==
    /\ op = "complete"
    /\ NotPolling
    /\ calls = <<>>
    /\ startIndex = <<>>
    /\ endIndex = <<>>
    /\ pc = "combine"
    /\ standardBoxes \in SeqsUpTo(DirectUnits, MaxUnits)
    /\ xmlBoxes \in SeqsUpTo(TaggedUnits, MaxUnits)
    /\ translated \in SeqsUpTo(TranslatedPairs, MaxPairs)
    /\ idmlBuffer = <<>>
    /\ targetLanguage = "en"
    /\ parserZip = <<>>
    /\ parserXMLZip = <<>>
    /\ allTextBoxes = <<>>
    /\ updatedTextBoxes = <<>>
    /\ standardTextBoxes = <<>>
    /\ xmlTextBoxes = <<>>
    /\ updatedIdmlBuffer = <<>>
    /\ submitted = <<>>
    /\ failure = ""

NextMerge ==
    \/ Combine
    \/ MergeTranslations
    \/ Partition

SpecMerge == InitMerge /\ [][NextMerge]_vars

----------------------------------------------------------------------------
(* Cross-strategy merge *)

Combined == pc \in {"merge", "submit", "partition", "directLoad"}

\* the indices of the Tagged units whose id no Direct unit has
KeptTagged == {j \in 1..Len(xmlBoxes) :
                 \A i \in 1..Len(standardBoxes) : standardBoxes[i].id # xmlBoxes[j].id}

\* C3: the combined list is the Direct list unchanged and in order, followed
\* in order by the Tagged units whose id does not occur in the Direct list;
\* so an id both strategies produce carries the Direct unit's content
C3_CombineDirectFirst ==
    Combined =>
        /\ Len(allTextBoxes) = Len(standardBoxes) + Cardinality(KeptTagged)
        /\ \A i \in 1..Len(standardBoxes) : allTextBoxes[i] = standardBoxes[i]
        /\ \A k \in 1..Cardinality(KeptTagged) :
              \E j \in KeptTagged :
                 /\ Cardinality({m \in KeptTagged : m <= j}) = k
                 /\ allTextBoxes[Len(standardBoxes) + k] = xmlBoxes[j]
        /\ \A i \in 1..Len(allTextBoxes) :
              allTextBoxes[i].id \in Ids(standardBoxes) =>
                 \E d \in 1..Len(standardBoxes) : allTextBoxes[i] = standardBoxes[d]

\* both strategies produced Story_u1, and the Tagged list also holds a unit
\* of a story the Direct list does not have
C3_Witness ==
    /\ Combined
    /\ \E i \in 1..Len(standardBoxes), j \in 1..Len(xmlBoxes) :
          standardBoxes[i].id = xmlBoxes[j].id
    /\ KeptTagged # {}
    /\ Len(allTextBoxes) = 2

----------------------------------------------------------------------------
(* applyTranslations *)

Merged == pc \in {"partition", "directLoad"}

PairIds == {translated[i].id : i \in 1..Len(translated)}

\* C5: the merged list has the length of the input list, the same ids in
\* the same order, and a unit whose id has no translated pair is unchanged
C5_MergeKeepsUnits ==
    Merged =>
        /\ Len(updatedTextBoxes) = Len(allTextBoxes)
        /\ \A i \in 1..Len(allTextBoxes) :
              /\ updatedTextBoxes[i].id = allTextBoxes[i].id
              /\ updatedTextBoxes[i].storyId = allTextBoxes[i].storyId
              /\ allTextBoxes[i].id \notin PairIds =>
                    updatedTextBoxes[i].content = allTextBoxes[i].content

\* two units, one translated and one without a pair
C5_Witness ==
    /\ Merged
    /\ Len(allTextBoxes) = 2
    /\ allTextBoxes[1].id \in PairIds
    /\ allTextBoxes[2].id \notin PairIds
    /\ updatedTextBoxes[1].content = <<"x">>

\* the content the translated pairs map an id to (the last pair wins)
MappedContent(id) ==
    translated[SetMax({i \in 1..Len(translated) : translated[i].id = id})].translatedContent

\* C6 as stated: every unit whose id occurs in the translated pairs carries
\* the content mapped to that id, the empty string included
C6_TranslatedContentApplied ==
    Merged =>
        \A i \in 1..Len(allTextBoxes) :
            allTextBoxes[i].id \in PairIds =>
                updatedTextBoxes[i].content = MappedContent(allTextBoxes[i].id)

----------------------------------------------------------------------------
(* The two rewrite passes of getCompletedTranslation, as seen in a state:   *)
(* the parser's zip is the package the pass loaded, updatedIdmlBuffer the   *)
(* package it returned                                                      *)

DirectPassDone == op = "complete" /\ pc = "xmlLoad" /\ standardTextBoxes # <<>>

TaggedPassDone == op = "complete" /\ pc = "done" /\ xmlTextBoxes # <<>>

EntryIdx(zip, name) == CHOOSE i \in 1..Len(zip) : zip[i].name = name

OutDoc(zip, name) == zip[EntryIdx(zip, name)].data.doc

\* entry i of the loaded package is a story file with a relevant unit
Touched(zip, textBoxes, i) ==
    /\ IsStoryFile(zip[i].name)
    /\ ~zip[i].dir
    /\ RelevantTextBoxes(textBoxes, StoryIdOf(zip[i].name)) # <<>>

Contents(textBoxes) == {textBoxes[i].content : i \in 1..Len(textBoxes)}

----------------------------------------------------------------------------
(* Unified list *)

\* C4 as stated: the unified list never holds two units with the same id
C4_UnifiedIdsUnique ==
    (Combined /\ idmlBuffer # <<>>) =>
        \A i, j \in 1..Len(allTextBoxes) :
            i # j => allTextBoxes[i].id # allTextBoxes[j].id

----------------------------------------------------------------------------
(* Direct rewrite: placement *)

\* C1 as stated, for the stories whose paragraphs the rewrite reaches: a
\* relevant unit's content is the content of the first character-style
\* range of the first paragraph and every other range holds empty content
C1_ContentInFirstRange ==
    DirectPassDone =>
        \A i \in 1..Len(parserZip[1]) :
            LET e == parserZip[1][i]
                rel == RelevantTextBoxes(standardTextBoxes, StoryIdOf(e.name))
                out == OutDoc(updatedIdmlBuffer, e.name).story.ParagraphStyleRange
            IN  (/\ Touched(parserZip[1], standardTextBoxes, i)
                 /\ e.data.doc.root = "idPkg:Story"
                 /\ e.data.doc.story.ParagraphStyleRange # <<>>)
                =>
                (/\ out[1].CharacterStyleRange # <<>>
                 /\ \E c \in Contents(rel) :
                        out[1].CharacterStyleRange[1].Content = <<c>>
                 /\ \A p \in 1..Len(out) :
                        \A j \in 1..Len(out[p].CharacterStyleRange) :
                            (p # 1 \/ j # 1) =>
                                out[p].CharacterStyleRange[j].Content = << <<>> >>)

----------------------------------------------------------------------------
(* Tagged rewrite: placement *)

RECURSIVE ParagraphRuns(_)
\* the character-style ranges of a list of paragraphs, in document order
ParagraphRuns(paragraphs) ==
    IF paragraphs = <<>> THEN <<>>
    ELSE Head(paragraphs).CharacterStyleRange \o ParagraphRuns(Tail(paragraphs))

RECURSIVE TaggedRuns(_)
\* the paragraph-level character-style ranges of a tagged-element tree, in
\* document order: an element's own paragraphs, then its nested elements
TaggedRuns(elements) ==
    IF elements = <<>> THEN <<>>
    ELSE ParagraphRuns(Head(elements).ParagraphStyleRange)
         \o TaggedRuns(Head(elements).XMLElement)
         \o TaggedRuns(Tail(elements))

\* C2 as stated, for the stories whose tagged tree has a range to write to:
\* a relevant unit's content is held by the first range in document order
\* and by no other range of the tree
C2_WrittenOnceInFirstRange ==
    TaggedPassDone =>
        \A i \in 1..Len(parserXMLZip[1]) :
            LET e == parserXMLZip[1][i]
                rel == RelevantTextBoxes(xmlTextBoxes, StoryIdOf(e.name))
                runs == TaggedRuns(OutDoc(updatedIdmlBuffer, e.name).story.XMLElement)
            IN  (/\ Touched(parserXMLZip[1], xmlTextBoxes, i)
                 /\ HasStoryData(e.data.doc)
                 /\ TaggedRuns(e.data.doc.story.XMLElement) # <<>>)
                =>
                \E c \in Contents(rel) :
                    /\ runs[1].Content = <<c>>
                    /\ \A k \in 2..Len(runs) : runs[k].Content # <<c>>

----------------------------------------------------------------------------
(* Archive: what a rewrite pass leaves alone *)

\* entry i of the loaded package is in the returned package under the same
\* path with the same bytes
PreservedEntry(zin, zout, i) ==
    \E k \in 1..Len(zout) :
        /\ zout[k].name = zin[i].name
        /\ zout[k].dir = zin[i].dir
        /\ zout[k].data = zin[i].data

FilesPreserved(zin, zout, textBoxes) ==
    \A i \in 1..Len(zin) :
        ~zin[i].dir =>
            IF Touched(zin, textBoxes, i)
            THEN \E k \in 1..Len(zout) :
                    zout[k].name = zin[i].name /\ ~zout[k].dir
            ELSE PreservedEntry(zin, zout, i)

----------------------------------------------------------------------------
(* Direct rewrite: round trip *)

\* the direction the rewrite sets is the one the story already has
DirectionKept(story, lang) ==
    \/ story.StoryPreference = <<>>
    \/ story.StoryPreference[1].StoryDirection = <<getTextDirection(lang)>>

\* the rewrite is given the extracted content, a scale of 1
RoundTripRun == translated = <<>> /\ ~ScaleApplies(FontSizeScale(targetLanguage))

Collapsed(paragraphs, c) ==
    \A p \in 1..Len(paragraphs) :
        \A j \in 1..Len(paragraphs[p].CharacterStyleRange) :
            paragraphs[p].CharacterStyleRange[j].Content =
                IF p = 1 /\ j = 1 THEN <<c>> ELSE << <<>> >>

----------------------------------------------------------------------------
(* Direct rewrite: font size *)

\* h hundredths of a point times 100/factor, to the nearest hundredth
ScaledOnce(h, factor) == (2 * h * 100 + factor) \div (2 * factor)

\* C9 as stated: with an expansion factor other than 1, every paragraph
\* range of a touched story that carries a PointSize ends with the original
\* PointSize times 1/f, rounded to two decimals
C9_PointSizeScaledOnce ==
    (DirectPassDone /\ getExpansionFactor(targetLanguage) # 100) =>
        \A i \in 1..Len(parserZip[1]) :
            LET e == parserZip[1][i]
                inP == e.data.doc.story.ParagraphStyleRange
                outP == OutDoc(updatedIdmlBuffer, e.name).story.ParagraphStyleRange
            IN  (/\ Touched(parserZip[1], standardTextBoxes, i)
                 /\ e.data.doc.root = "idPkg:Story")
                =>
                \A p \in 1..Len(inP) :
                    \A j \in 1..Len(inP[p].CharacterStyleRange) :
                        LET a == inP[p].CharacterStyleRange[j].attrs
                        IN  (a # <<>> /\ a[1].PointSize # <<>>) =>
                                outP[p].CharacterStyleRange[j].attrs[1].PointSize =
                                    <<[h  |-> ScaledOnce(a[1].PointSize[1].h,
                                                getExpansionFactor(targetLanguage)),
                                       dp |-> 2]>>

----------------------------------------------------------------------------
(* Direction *)

\* the direction the language table gives: right-to-left for Arabic,
\* Persian, Hebrew and Urdu, left-to-right otherwise
ResolvedDirection(lang) ==
    IF toLowerCase(lang) \in {"ar", "fa", "he", "ur"}
    THEN "RightToLeftDirection" ELSE "LeftToRightDirection"

\* the story of a touched entry has the resolved direction
HasResolvedDirection(doc, lang) ==
    /\ doc.story.StoryPreference # <<>>
    /\ doc.story.StoryPreference[1].StoryDirection = <<ResolvedDirection(lang)>>

DirectionSetWherePresent(zin, zout, textBoxes, lang, located(_)) ==
    \A i \in 1..Len(zin) :
        LET e == zin[i]
            out == OutDoc(zout, e.name)
        IN  IsStoryFile(e.name) /\ ~e.dir =>
                IF /\ Touched(zin, textBoxes, i)
                   /\ located(e.data.doc)
                   /\ e.data.doc.story.StoryPreference # <<>>
                THEN HasResolvedDirection(out, lang)
                ELSE out.story.StoryPreference = e.data.doc.story.StoryPreference

----------------------------------------------------------------------------
(* Extraction *)

\* parseDocument of the Direct parser has returned its units
DirectParsed == pc = "loadXML"

\* parseDocument of the Tagged parser has returned its units
TaggedParsed == pc = "combine"

\* the text of one character-style range: its content nodes, joined by ''
RunText(charRange) == Concat(charRange.Content)

\* the text of a list of character-style ranges, one after the other
RunsText(charRanges) == Concat([j \in 1..Len(charRanges) |-> RunText(charRanges[j])])

\* the texts of the paragraphs of a list, one text per paragraph
ParagraphTexts(paragraphs) ==
    [p \in 1..Len(paragraphs) |-> RunsText(paragraphs[p].CharacterStyleRange)]

\* a tagged element whose text lives in its paragraph-style ranges only
ParagraphsOnly(xmlElement) ==
    /\ xmlElement.ParagraphStyleRange # <<>>
    /\ xmlElement.CharacterStyleRange = <<>>
    /\ xmlElement.XMLElement = <<>>

\* C11 as stated: the text extracted from a tagged element with paragraphs
\* p1..pn is the paragraphs' texts joined by one newline, with no leading
\* and no trailing newline
C11_ParagraphsJoinedByNewline ==
    TaggedParsed =>
        \A i \in 1..Len(parserXMLZip[1]) :
            LET e == parserXMLZip[1][i]
                xmlElements == e.data.doc.story.XMLElement
                text == Join(ParagraphTexts(xmlElements[1].ParagraphStyleRange), <<"\n">>)
                units == RelevantTextBoxes(xmlBoxes, StoryIdOf(e.name))
            IN  (/\ IsStoryFile(e.name)
                 /\ HasStoryData(e.data.doc)
                 /\ Len(xmlElements) = 1
                 /\ ParagraphsOnly(xmlElements[1])
                 /\ trim(text) # <<>>)
                => (Len(units) = 1 /\ units[1].content = text)

\* C12: the first unit of a story with paragraph-style ranges holding text is
\* the concatenation, with no separator, of the content of every
\* character-style range of every paragraph, in document order
C12_DirectContentConcatenated ==
    DirectParsed =>
        \A i \in 1..Len(parserZip[1]) :
            LET e == parserZip[1][i]
                text == RunsText(ParagraphRuns(e.data.doc.story.ParagraphStyleRange))
                units == DirectBoxesOfStory(e.name, e.data.doc)
            IN  (/\ IsStoryFile(e.name)
                 /\ HasStoryData(e.data.doc)
                 /\ trim(text) # <<>>)
                => (/\ units # <<>>
                    /\ units[1].content = text
                    /\ \E k \in 1..Len(standardBoxes) : standardBoxes[k] = units[1])

\* a story with two paragraphs and three ranges with text was extracted
C12_Witness ==
    /\ DirectParsed
    /\ \E i \in 1..Len(parserZip[1]) :
        LET e == parserZip[1][i]
            runs == ParagraphRuns(e.data.doc.story.ParagraphStyleRange)
            units == RelevantTextBoxes(standardBoxes, StoryIdOf(e.name))
        IN  /\ IsStoryFile(e.name)
            /\ HasStoryData(e.data.doc)
            /\ Len(e.data.doc.story.ParagraphStyleRange) >= 2
            /\ Cardinality({j \in 1..Len(runs) : RunText(runs[j]) # <<>>}) >= 3
            /\ units # <<>>
            /\ units[1].content = RunsText(runs)
            /\ Len(units[1].content) >= 3

----------------------------------------------------------------------------
(* Submission *)

\* C13: a submission for which both extractors yield no unit ends in a
\* failure, and nothing was sent to the webhook
C13_EmptyPackageRejected ==
    (/\ op = "submit"
     /\ standardBoxes = <<>>
     /\ xmlBoxes = <<>>)
    => (/\ submitted = <<>>
        /\ pc # "done"
        /\ pc = "failed" => failure \in {"parse", "No text boxes found in the IDML file"})

\* a submission of a package without units has failed
C13_Witness ==
    /\ op = "submit"
    /\ pc = "failed"
    /\ failure = "No text boxes found in the IDML file"
    /\ parserXMLZip # <<>>
    /\ standardBoxes = <<>>
    /\ xmlBoxes = <<>>
    /\ submitted = <<>>

----------------------------------------------------------------------------
(* Two invocations on one TranslationService: the server creates a single   *)
(* service, whose two parsers each keep the loaded archive in this.zip.     *)
(* In this specification every local of an invocation (op, pc, idmlBuffer,  *)
(* targetLanguage, translated, the unit lists, updatedIdmlBuffer,           *)
(* submitted, failure) holds one value per invocation; parserZip and        *)
(* parserXMLZip are the parsers' fields, shared by the invocations. A step  *)
(* is one await of the handler.                                             *)

Invocations == {1, 2}

\* the packages and answers the two requests carry
ConcurrentPackages ==
    {Package({}, XmlData(SimpleDirectDoc), XmlData(SimpleTaggedDoc)),
     Package({}, XmlData(SimpleTaggedDoc), XmlData(BlankDoc)),
     Package({}, XmlData(BlankDoc), XmlData(SimpleDirectDoc)),
     Package({}, XmlData(SimpleDirectDoc), MalformedXml)}

ConcurrentResponses == {<<>>, <<Pair(Story1, <<"x">>)>>}

InitConcurrent ==
    /\ op \in [Invocations -> {"submit", "complete"}]
    /\ pc = [k \in Invocations |-> IF op[k] = "complete" THEN "fetch" ELSE "loadStd"]
    /\ idmlBuffer \in [Invocations -> ConcurrentPackages]
    /\ targetLanguage = [k \in Invocations |-> "fa"]
    /\ translated = [k \in Invocations |-> <<>>]
    /\ parserZip = <<>>
    /\ parserXMLZip = <<>>
    /\ standardBoxes = [k \in Invocations |-> <<>>]
    /\ xmlBoxes = [k \in Invocations |-> <<>>]
    /\ allTextBoxes = [k \in Invocations |-> <<>>]
    /\ updatedTextBoxes = [k \in Invocations |-> <<>>]
    /\ standardTextBoxes = [k \in Invocations |-> <<>>]
    /\ xmlTextBoxes = [k \in Invocations |-> <<>>]
    /\ updatedIdmlBuffer = [k \in Invocations |-> <<>>]
    /\ submitted = [k \in Invocations |-> <<>>]
    /\ failure = [k \in Invocations |-> ""]
    /\ startIndex = [k \in Invocations |-> <<>>]
    /\ endIndex = [k \in Invocations |-> <<>>]
    /\ NotPolling
    /\ calls = <<>>

\* webhookService.checkTranslationStatus
FetchTranslationOf(k) ==
    /\ pc[k] = "fetch"
    /\ \E r \in ConcurrentResponses : translated' = [translated EXCEPT ![k] = r]
    /\ pc' = [pc EXCEPT ![k] = "loadStd"]
    /\ UNCHANGED <<extraVars, op, idmlBuffer, targetLanguage, parserZip, parserXMLZip,
                   standardBoxes, xmlBoxes, allTextBoxes, updatedTextBoxes,
                   standardTextBoxes, xmlTextBoxes, updatedIdmlBuffer,
                   submitted, failure>>

\* idmlParser.loadIdmlFile(buffer): this.zip = the invocation's archive
LoadStandardOf(k) ==
    /\ pc[k] = "loadStd"
    /\ parserZip' = <<idmlBuffer[k]>>
    /\ pc' = [pc EXCEPT ![k] = "parseStd"]
    /\ UNCHANGED <<extraVars, op, idmlBuffer, targetLanguage, translated,
                   parserXMLZip, standardBoxes, xmlBoxes, allTextBoxes,
                   updatedTextBoxes, standardTextBoxes, xmlTextBoxes,
                   updatedIdmlBuffer, submitted, failure>>

\* idmlParser.parseDocument(): reads this.zip
ParseStandardOf(k) ==
    /\ pc[k] = "parseStd"
    /\ IF ParseThrows(parserZip[1])
       THEN /\ failure' = [failure EXCEPT ![k] = "parse"]
            /\ pc' = [pc EXCEPT ![k] = "failed"]
            /\ UNCHANGED standardBoxes
       ELSE /\ standardBoxes' = [standardBoxes EXCEPT ![k] = extractTextBoxes(parserZip[1])]
            /\ pc' = [pc EXCEPT ![k] = "loadXML"]
            /\ UNCHANGED failure
    /\ UNCHANGED <<extraVars, op, idmlBuffer, targetLanguage, translated, parserZip,
                   parserXMLZip, xmlBoxes, allTextBoxes, updatedTextBoxes,
                   standardTextBoxes, xmlTextBoxes, updatedIdmlBuffer,
                   submitted>>

\* idmlParserXML.loadIdmlFile(buffer)
LoadXMLOf(k) ==
    /\ pc[k] = "loadXML"
    /\ parserXMLZip' = <<idmlBuffer[k]>>
    /\ pc' = [pc EXCEPT ![k] = "parseXML"]
    /\ UNCHANGED <<extraVars, op, idmlBuffer, targetLanguage, translated, parserZip,
                   standardBoxes, xmlBoxes, allTextBoxes, updatedTextBoxes,
                   standardTextBoxes, xmlTextBoxes, updatedIdmlBuffer,
                   submitted, failure>>

\* idmlParserXML.parseDocument()
ParseXMLOf(k) ==
    /\ pc[k] = "parseXML"
    /\ IF ParseThrows(parserXMLZip[1])
       THEN /\ failure' = [failure EXCEPT ![k] = "parse"]
            /\ pc' = [pc EXCEPT ![k] = "failed"]
            /\ UNCHANGED xmlBoxes
       ELSE /\ xmlBoxes' = [xmlBoxes EXCEPT ![k] = XML_extractTextBoxes(parserXMLZip[1])]
            /\ pc' = [pc EXCEPT ![k] = "combine"]
            /\ UNCHANGED failure
    /\ UNCHANGED <<extraVars, op, idmlBuffer, targetLanguage, translated, parserZip,
                   parserXMLZip, standardBoxes, allTextBoxes,
                   updatedTextBoxes, standardTextBoxes, xmlTextBoxes,
                   updatedIdmlBuffer, submitted>>

\* "Combine text boxes from both parsers, removing duplicates by ID"
CombineOf(k) ==
    /\ pc[k] = "combine"
    /\ allTextBoxes' = [allTextBoxes EXCEPT ![k] = combine(standardBoxes[k], xmlBoxes[k])]
    /\ pc' = [pc EXCEPT ![k] = IF op[k] = "submit" THEN "submit" ELSE "merge"]
    /\ UNCHANGED <<extraVars, op, idmlBuffer, targetLanguage, translated, parserZip,
                   parserXMLZip, standardBoxes, xmlBoxes, updatedTextBoxes,
                   standardTextBoxes, xmlTextBoxes, updatedIdmlBuffer,
                   submitted, failure>>

SubmitOf(k) ==
    /\ pc[k] = "submit"
    /\ IF allTextBoxes[k] = <<>>
       THEN /\ failure' = [failure EXCEPT ![k] = "No text boxes found in the IDML file"]
            /\ pc' = [pc EXCEPT ![k] = "failed"]
            /\ UNCHANGED submitted
       ELSE IF textBoxesToSubmit(allTextBoxes[k], startIndex[k], endIndex[k]) = <<>>
       THEN /\ failure' = [failure EXCEPT ![k] = "No text boxes found in range"]
            /\ pc' = [pc EXCEPT ![k] = "failed"]
            /\ UNCHANGED submitted
       ELSE /\ submitted' = [submitted EXCEPT ![k] =
                                textBoxesToSubmit(allTextBoxes[k], startIndex[k], endIndex[k])]
            /\ pc' = [pc EXCEPT ![k] = "done"]
            /\ UNCHANGED failure
    /\ UNCHANGED <<extraVars, op, idmlBuffer, targetLanguage, translated, parserZip,
                   parserXMLZip, standardBoxes, xmlBoxes, allTextBoxes,
                   updatedTextBoxes, standardTextBoxes, xmlTextBoxes,
                   updatedIdmlBuffer>>

MergeTranslationsOf(k) ==
    /\ pc[k] = "merge"
    /\ updatedTextBoxes' =
          [updatedTextBoxes EXCEPT ![k] = mergeTranslations(allTextBoxes[k], translated[k])]
    /\ pc' = [pc EXCEPT ![k] = "partition"]
    /\ UNCHANGED <<extraVars, op, idmlBuffer, targetLanguage, translated, parserZip,
                   parserXMLZip, standardBoxes, xmlBoxes, allTextBoxes,
                   standardTextBoxes, xmlTextBoxes, updatedIdmlBuffer,
                   submitted, failure>>

PartitionOf(k) ==
    /\ pc[k] = "partition"
    /\ standardTextBoxes' =
          [standardTextBoxes EXCEPT ![k] = StandardSubset(updatedTextBoxes[k], standardBoxes[k])]
    /\ xmlTextBoxes' =
          [xmlTextBoxes EXCEPT ![k] = XmlSubset(updatedTextBoxes[k], standardBoxes[k])]
    /\ updatedIdmlBuffer' = [updatedIdmlBuffer EXCEPT ![k] = idmlBuffer[k]]
    /\ pc' = [pc EXCEPT ![k] = "directLoad"]
    /\ UNCHANGED <<extraVars, op, idmlBuffer, targetLanguage, translated, parserZip,
                   parserXMLZip, standardBoxes, xmlBoxes, allTextBoxes,
                   updatedTextBoxes, submitted, failure>>

DirectLoadOf(k) ==
    /\ pc[k] = "directLoad"
    /\ IF standardTextBoxes[k] # <<>>
       THEN /\ parserZip' = <<updatedIdmlBuffer[k]>>
            /\ pc' = [pc EXCEPT ![k] = "directRewrite"]
       ELSE /\ UNCHANGED parserZip
            /\ pc' = [pc EXCEPT ![k] = "xmlLoad"]
    /\ UNCHANGED <<extraVars, op, idmlBuffer, targetLanguage, translated,
                   parserXMLZip, standardBoxes, xmlBoxes, allTextBoxes,
                   updatedTextBoxes, standardTextBoxes, xmlTextBoxes,
                   updatedIdmlBuffer, submitted, failure>>

\* idmlParser.updateTextBoxesWithLanguage: copies and rewrites this.zip
DirectRewriteOf(k) ==
    /\ pc[k] = "directRewrite"
    /\ IF RewriteThrows(parserZip[1], standardTextBoxes[k])
       THEN /\ failure' = [failure EXCEPT ![k] = "parse"]
            /\ pc' = [pc EXCEPT ![k] = "failed"]
            /\ UNCHANGED updatedIdmlBuffer
       ELSE /\ updatedIdmlBuffer' = [updatedIdmlBuffer EXCEPT ![k] =
                  updateTextBoxesWithLanguage(parserZip[1], standardTextBoxes[k],
                                              targetLanguage[k])]
            /\ pc' = [pc EXCEPT ![k] = "xmlLoad"]
            /\ UNCHANGED failure
    /\ UNCHANGED <<extraVars, op, idmlBuffer, targetLanguage, translated, parserZip,
                   parserXMLZip, standardBoxes, xmlBoxes, allTextBoxes,
                   updatedTextBoxes, standardTextBoxes, xmlTextBoxes,
                   submitted>>

XMLLoadOf(k) ==
    /\ pc[k] = "xmlLoad"
    /\ IF xmlTextBoxes[k] # <<>>
       THEN /\ parserXMLZip' = <<updatedIdmlBuffer[k]>>
            /\ pc' = [pc EXCEPT ![k] = "xmlRewrite"]
       ELSE /\ UNCHANGED parserXMLZip
            /\ pc' = [pc EXCEPT ![k] = "done"]
    /\ UNCHANGED <<extraVars, op, idmlBuffer, targetLanguage, translated, parserZip,
                   standardBoxes, xmlBoxes, allTextBoxes, updatedTextBoxes,
                   standardTextBoxes, xmlTextBoxes, updatedIdmlBuffer,
                   submitted, failure>>

XMLRewriteOf(k) ==
    /\ pc[k] = "xmlRewrite"
    /\ IF RewriteThrows(parserXMLZip[1], xmlTextBoxes[k])
       THEN /\ failure' = [failure EXCEPT ![k] = "parse"]
            /\ pc' = [pc EXCEPT ![k] = "failed"]
            /\ UNCHANGED updatedIdmlBuffer
       ELSE /\ updatedIdmlBuffer' = [updatedIdmlBuffer EXCEPT ![k] =
                  XML_updateTextBoxesWithLanguage(parserXMLZip[1], xmlTextBoxes[k],
                                                  targetLanguage[k])]
            /\ pc' = [pc EXCEPT ![k] = "done"]
            /\ UNCHANGED failure
    /\ UNCHANGED <<extraVars, op, idmlBuffer, targetLanguage, translated, parserZip,
                   parserXMLZip, standardBoxes, xmlBoxes, allTextBoxes,
                   updatedTextBoxes, standardTextBoxes, xmlTextBoxes,
                   submitted>>

NextConcurrent ==
    \E k \in Invocations :
        \/ FetchTranslationOf(k)
        \/ LoadStandardOf(k)
        \/ ParseStandardOf(k)
        \/ LoadXMLOf(k)
        \/ ParseXMLOf(k)
        \/ CombineOf(k)
        \/ SubmitOf(k)
        \/ MergeTranslationsOf(k)
        \/ PartitionOf(k)
        \/ DirectLoadOf(k)
        \/ DirectRewriteOf(k)
        \/ XMLLoadOf(k)
        \/ XMLRewriteOf(k)

SpecConcurrent == InitConcurrent /\ [][NextConcurrent]_vars

\* the units the two extractors yield for a package
UnitsOf(pkg) ==
    {extractTextBoxes(pkg)[i] : i \in 1..Len(extractTextBoxes(pkg))}
    \cup {XML_extractTextBoxes(pkg)[i] : i \in 1..Len(XML_extractTextBoxes(pkg))}

\* C14 as stated: in every interleaving, the units an invocation goes on to
\* submit or to rewrite with were extracted from its own input package
C14_UnitsFromOwnInput ==
    \A k \in Invocations :
        /\ \A i \in 1..Len(allTextBoxes[k]) : allTextBoxes[k][i] \in UnitsOf(idmlBuffer[k])
        /\ \A i \in 1..Len(submitted[k]) : submitted[k][i] \in UnitsOf(idmlBuffer[k])

----------------------------------------------------------------------------
(* Rewrite: stories that cannot receive the content *)

\* C15 as stated: a rewrite pass that returns a package had no unit for a
\* story that cannot receive it, that is, every story with a relevant unit
\* has the root element the rewriter looks for and a paragraph-style range
\* to write into
C15_UnwritableStoryFails ==
    /\ DirectPassDone =>
        \A i \in 1..Len(parserZip[1]) :
            Touched(parserZip[1], standardTextBoxes, i) =>
                /\ parserZip[1][i].data.doc.root = "idPkg:Story"
                /\ parserZip[1][i].data.doc.story.ParagraphStyleRange # <<>>
    /\ TaggedPassDone =>
        \A i \in 1..Len(parserXMLZip[1]) :
            Touched(parserXMLZip[1], xmlTextBoxes, i) =>
                /\ HasStoryData(parserXMLZip[1][i].data.doc)
                /\ \E j \in 1..Len(TaggedRuns(parserXMLZip[1][i].data.doc.story.XMLElement)) :
                        TRUE

----------------------------------------------------------------------------
(* Extraction: a malformed story file *)

MalformedStories(pkg) ==
    {i \in 1..Len(pkg) : IsStoryFile(pkg[i].name) /\ ~pkg[i].data.wellFormed}

WellFormedStories(pkg) ==
    {i \in 1..Len(pkg) : IsStoryFile(pkg[i].name) /\ pkg[i].data.wellFormed}

\* C16 as stated: for a package with one malformed story file and the other
\* story files well formed, the extraction does not fail for the document
\* and returns the units of the well-formed stories
C16_BadStorySkipped ==
    (/\ MalformedStories(idmlBuffer) # {}
     /\ WellFormedStories(idmlBuffer) # {}
     /\ pc \notin {"fetch", "loadStd", "parseStd"})
    => (/\ pc # "failed"
        /\ \A i \in WellFormedStories(idmlBuffer) :
              RelevantTextBoxes(standardBoxes, StoryIdOf(idmlBuffer[i].name))
                  = DirectBoxesOfStory(idmlBuffer[i].name, idmlBuffer[i].data.doc))

----------------------------------------------------------------------------
(* Rewrite: the shape of the tree *)

\* the attribute names of an element: "$" stands for having attributes
AttrNames(attrs) ==
    IF attrs = <<>> THEN {}
    ELSE {"$"} \cup (IF attrs[1].PointSize # <<>> THEN {"PointSize"} ELSE {})

RECURSIVE SameShape(_, _)
\* two lists of paragraphs or ranges have the same elements, the same
\* attribute names and the same content nodes (whatever their values)
SameShape(a, b) ==
    /\ Len(a) = Len(b)
    /\ \A i \in 1..Len(a) :
        /\ AttrNames(a[i].attrs) = AttrNames(b[i].attrs)
        /\ Len(a[i].Content) = Len(b[i].Content)
        /\ SameShape(a[i].CharacterStyleRange, b[i].CharacterStyleRange)

RECURSIVE SameTaggedShape(_, _)
SameTaggedShape(a, b) ==
    /\ Len(a) = Len(b)
    /\ \A i \in 1..Len(a) :
        /\ SameShape(a[i].ParagraphStyleRange, b[i].ParagraphStyleRange)
        /\ SameShape(a[i].CharacterStyleRange, b[i].CharacterStyleRange)
        /\ SameTaggedShape(a[i].XMLElement, b[i].XMLElement)

SameStoryShape(a, b) ==
    /\ a.root = b.root
    /\ Len(a.story.StoryPreference) = Len(b.story.StoryPreference)
    /\ Len(a.story.Content) = Len(b.story.Content)
    /\ SameShape(a.story.ParagraphStyleRange, b.story.ParagraphStyleRange)
    /\ SameShape(a.story.CharacterStyleRange, b.story.CharacterStyleRange)
    /\ SameTaggedShape(a.story.XMLElement, b.story.XMLElement)

\* C17 as stated: every story a pass rewrote has the elements, the attribute
\* names and the content nodes of the original story
C17_ShapeKept ==
    /\ DirectPassDone =>
        \A i \in 1..Len(parserZip[1]) :
            Touched(parserZip[1], standardTextBoxes, i) =>
                SameStoryShape(parserZip[1][i].data.doc,
                               OutDoc(updatedIdmlBuffer, parserZip[1][i].name))
    /\ TaggedPassDone =>
        \A i \in 1..Len(parserXMLZip[1]) :
            Touched(parserXMLZip[1], xmlTextBoxes, i) =>
                SameStoryShape(parserXMLZip[1][i].data.doc,
                               OutDoc(updatedIdmlBuffer, parserXMLZip[1][i].name))

----------------------------------------------------------------------------
(* Direct extraction: units per story *)

\* C18 as stated: the Direct extractor returns at most one unit per story
\* file, also when the story has more than one of the three text structures
C18_OneUnitPerStory ==
    DirectParsed =>
        \A i \in 1..Len(parserZip[1]) :
            IsStoryFile(parserZip[1][i].name) =>
                Len(DirectBoxesOfStory(parserZip[1][i].name,
                                       parserZip[1][i].data.doc)) <= 1

----------------------------------------------------------------------------
(* Rewrite: which story file a unit goes to *)

\* the story files of a package whose derived id is the unit's storyId
MatchingStoryFiles(zip, textBox) ==
    {i \in 1..Len(zip) : IsStoryFile(zip[i].name) /\ ~zip[i].dir
                         /\ StoryIdOf(zip[i].name) = textBox.storyId}

\* C19 as stated: every unit a rewrite pass is given matches one story file
\* of the package, the one it was extracted from, and no other
C19_UnitMatchesOneStory ==
    /\ DirectPassDone =>
        \A k \in 1..Len(standardTextBoxes) :
            Cardinality(MatchingStoryFiles(parserZip[1], standardTextBoxes[k])) = 1
    /\ TaggedPassDone =>
        \A k \in 1..Len(xmlTextBoxes) :
            Cardinality(MatchingStoryFiles(parserXMLZip[1], xmlTextBoxes[k])) = 1

----------------------------------------------------------------------------
(* applyTranslations: repeated application *)

\* C20: applying the pairs to the merged list gives the merged list again,
\* the input list is as it was before the merge, and applying the pairs to
\* it once more gives the same merged list
C20_MergeIdempotent ==
    Merged =>
        /\ mergeTranslations(updatedTextBoxes, translated) = updatedTextBoxes
        /\ allTextBoxes = combine(standardBoxes, xmlBoxes)
        /\ mergeTranslations(allTextBoxes, translated) = updatedTextBoxes

\* a merge that changed the content of a unit and left another one as it was
C20_Witness ==
    /\ Merged
    /\ \E i, j \in 1..Len(allTextBoxes) :
        /\ updatedTextBoxes[i].content # allTextBoxes[i].content
        /\ updatedTextBoxes[j].content = allTextBoxes[j].content
    /\ mergeTranslations(updatedTextBoxes, translated) = updatedTextBoxes

----------------------------------------------------------------------------
(* partitionBySource *)

Partitioned == pc = "directLoad"

\* the indices of the merged units whose id the Direct extractor produced
FromDirect == {i \in 1..Len(updatedTextBoxes) :
                 \E d \in 1..Len(standardBoxes) :
                     standardBoxes[d].id = updatedTextBoxes[i].id}

FromTagged == (1..Len(updatedTextBoxes)) \ FromDirect

\* sub is the units of the merged list at the indices of idx, in order
IsSublistAt(sub, idx) ==
    /\ Len(sub) = Cardinality(idx)
    /\ \A k \in 1..Len(sub) :
          \E i \in idx :
             /\ Cardinality({m \in idx : m <= i}) = k
             /\ sub[k] = updatedTextBoxes[i]

\* C21: the Direct subset is the merged units whose id the Direct extractor
\* produced, the Tagged subset all the others, each in order, so every unit
\* is in exactly one of them; and the indices that go to the Direct subset
\* are those of the untranslated list, whatever the translations wrote
C21_PartitionBySource ==
    Partitioned =>
        /\ IsSublistAt(standardTextBoxes, FromDirect)
        /\ IsSublistAt(xmlTextBoxes, FromTagged)
        /\ Len(standardTextBoxes) + Len(xmlTextBoxes) = Len(updatedTextBoxes)
        /\ FromDirect = {i \in 1..Len(allTextBoxes) :
                            allTextBoxes[i].id \in Ids(standardBoxes)}

\* both subsets hold a unit, and a Direct unit carries a translation
C21_Witness ==
    /\ Partitioned
    /\ xmlTextBoxes # <<>>
    /\ \E k \in 1..Len(standardTextBoxes) :
          /\ standardTextBoxes[k].content = <<"x">>
          /\ \A d \in 1..Len(standardBoxes) : standardBoxes[d].content # <<"x">>

----------------------------------------------------------------------------
(* Batch submission: the submit step on arbitrary unit lists and ranges *)

InitBatch ==
    /\ op = "submit"
    /\ NotPolling
    /\ calls = <<>>
    /\ pc = "combine"
    /\ startIndex \in Indices
    /\ endIndex \in Indices
    /\ standardBoxes \in SeqsUpTo(DirectUnits, MaxUnits)
    /\ xmlBoxes \in SeqsUpTo(TaggedUnits, MaxUnits)
    /\ translated = <<>>
    /\ idmlBuffer = <<>>
    /\ targetLanguage = "fa"
    /\ parserZip = <<>>
    /\ parserXMLZip = <<>>
    /\ allTextBoxes = <<>>
    /\ updatedTextBoxes = <<>>
    /\ standardTextBoxes = <<>>
    /\ xmlTextBoxes = <<>>
    /\ updatedIdmlBuffer = <<>>
    /\ submitted = <<>>
    /\ failure = ""

NextBatch ==
    \/ Combine
    \/ Submit

SpecBatch == InitBatch /\ [][NextBatch]_vars

SubmitEnded == op = "submit" /\ pc \in {"done", "failed"}

\* the units of the merged list at the indices lo..hi, counted from 0
UnitsAt(lo, hi) == [i \in 1..(hi - lo + 1) |-> allTextBoxes[lo + i]]

\* the three consecutive batches 0..a, a+1..b, b+1..n-1 of a list of n units
\* submit, one after the other, the whole list
BatchesCoverList ==
    LET n == Len(allTextBoxes)
    IN  \A a \in 0..(n - 1), b \in 0..(n - 1) :
           a < b /\ b < n - 1 =>
              textBoxesToSubmit(allTextBoxes, <<0>>, <<a>>)
              \o textBoxesToSubmit(allTextBoxes, <<a + 1>>, <<b>>)
              \o textBoxesToSubmit(allTextBoxes, <<b + 1>>, <<n - 1>>)
              = allTextBoxes

\* C22: a submission with 0 <= s <= e sends the units s..min(e, n-1) of the
\* merged list in order, or fails with nothing sent when that range holds no
\* unit; consecutive batches together send every unit exactly once
C22_BatchSubmitsRange ==
    (/\ SubmitEnded
     /\ startIndex # <<>>
     /\ endIndex # <<>>
     /\ 0 <= startIndex[1]
     /\ startIndex[1] <= endIndex[1])
    => LET n  == Len(allTextBoxes)
           s  == startIndex[1]
           hi == SetMin({endIndex[1], n - 1})
       IN  /\ IF s <= hi
              THEN pc = "done" /\ submitted = UnitsAt(s, hi)
              ELSE pc = "failed" /\ submitted = <<>>
           /\ BatchesCoverList

\* a middle batch of a longer list was sent
C22_Witness ==
    /\ SubmitEnded
    /\ startIndex = <<1>>
    /\ endIndex = <<2>>
    /\ Len(allTextBoxes) = 4
    /\ submitted = <<allTextBoxes[2], allTextBoxes[3]>>

----------------------------------------------------------------------------
(* waitForTranslationCompletion *)

\* TranslationStatusResponse.status, and a check that throws
CheckResults == {"completed", "failed", "pending", "throws"}

Intervals == {0, 1, 1000, 5000}

InitPoll ==
    /\ maxAttempts \in 0..MaxAttempts
    /\ intervalMs \in Intervals
    /\ attempt = 1
    /\ pollLog = <<>>
    /\ pollPc = "loop"
    /\ pollOutcome = ""
    /\ calls = <<>>
    /\ op = "wait"
    /\ pc = "idle"
    /\ idmlBuffer = <<>>
    /\ targetLanguage = "fa"
    /\ translated = <<>>
    /\ parserZip = <<>>
    /\ parserXMLZip = <<>>
    /\ standardBoxes = <<>>
    /\ xmlBoxes = <<>>
    /\ allTextBoxes = <<>>
    /\ updatedTextBoxes = <<>>
    /\ standardTextBoxes = <<>>
    /\ xmlTextBoxes = <<>>
    /\ updatedIdmlBuffer = <<>>
    /\ submitted = <<>>
    /\ failure = ""
    /\ startIndex = <<>>
    /\ endIndex = <<>>

pipelineVars == <<pc, op, idmlBuffer, targetLanguage, translated, parserZip,
                  parserXMLZip, standardBoxes, xmlBoxes, allTextBoxes,
                  updatedTextBoxes, standardTextBoxes, xmlTextBoxes,
                  updatedIdmlBuffer, submitted, failure, startIndex, endIndex,
                  calls>>

\* the entries of the log: a status check and a wait of ms milliseconds
Checked(status) == [kind |-> "check", status |-> status, ms |-> 0]

Waited(ms) == [kind |-> "wait", status |-> "", ms |-> ms]

\* variant: the loop waits after every pending check
WaitsBeforeNext_Always(n, max) == n <= max

\* "if (attempt < maxAttempts)": a pending check is followed by a wait
WaitsBeforeNext(n, max) == n < max

\* one pass of the loop body up to its next await: the status check and
\* the branches on its status
PollCheck ==
    /\ pollPc = "loop"
    /\ attempt <= maxAttempts
    /\ \E status \in CheckResults :
          /\ pollLog' = Append(pollLog, Checked(status))
          /\ CASE status = "completed" ->
                    /\ pollOutcome' = "completed"
                    /\ pollPc' = "ended"
                    /\ UNCHANGED attempt
               [] status = "failed" ->
                    /\ pollOutcome' = "TRANSLATION_FAILED"
                    /\ pollPc' = "ended"
                    /\ UNCHANGED attempt
               [] status = "throws" ->
                    /\ pollOutcome' = "WEBHOOK_ERROR"
                    /\ pollPc' = "ended"
                    /\ UNCHANGED attempt
               [] OTHER ->
                    /\ IF WaitsBeforeNext(attempt, maxAttempts)
                       THEN pollPc' = "wait" /\ UNCHANGED attempt
                       ELSE pollPc' = "loop" /\ attempt' = attempt + 1
                    /\ UNCHANGED pollOutcome
    /\ UNCHANGED <<maxAttempts, intervalMs, pipelineVars>>

\* the timer of intervalMs fires and the loop goes to its next attempt
PollWait ==
    /\ pollPc = "wait"
    /\ pollLog' = Append(pollLog, Waited(intervalMs))
    /\ attempt' = attempt + 1
    /\ pollPc' = "loop"
    /\ UNCHANGED <<maxAttempts, intervalMs, pollOutcome, pipelineVars>>

\* the loop is over: "Translation did not complete within ... attempts"
PollTimeout ==
    /\ pollPc = "loop"
    /\ attempt > maxAttempts
    /\ pollOutcome' = "TRANSLATION_TIMEOUT"
    /\ pollPc' = "ended"
    /\ UNCHANGED <<maxAttempts, intervalMs, attempt, pollLog, pipelineVars>>

NextPoll ==
    \/ PollCheck
    \/ PollWait
    \/ PollTimeout

\* every status check resolves or rejects and every timer fires
SpecPoll ==
    /\ InitPoll
    /\ [][NextPoll]_vars
    /\ WF_vars(PollCheck)
    /\ WF_vars(PollWait)
    /\ WF_vars(PollTimeout)

IsWait(entry) == entry.kind = "wait"

\* the statuses checked so far, in order
Checks ==
    LET checked == SelectSeq(pollLog, LAMBDA entry : ~IsWait(entry))
    IN  [i \in 1..Len(checked) |-> checked[i].status]

PollEnded == pollPc = "ended"

\* what the polling has done is consistent with its arguments and outcome
PollingAsSpecified ==
    /\ Len(Checks) <= maxAttempts
    \* only the last check can be other than pending
    /\ \A i \in 1..(Len(Checks) - 1) : Checks[i] = "pending"
    \* a wait stands between two checks, never first and never last
    /\ \A i \in 1..Len(pollLog) :
          IsWait(pollLog[i]) =>
             /\ pollLog[i].ms = intervalMs
             /\ i > 1 /\ pollLog[i - 1] = Checked("pending")
             /\ PollEnded => i < Len(pollLog) /\ ~IsWait(pollLog[i + 1])
    /\ PollEnded =>
          /\ pollOutcome = "completed"
                <=> (Checks # <<>> /\ Checks[Len(Checks)] = "completed")
          /\ pollOutcome = "TRANSLATION_FAILED"
                <=> (Checks # <<>> /\ Checks[Len(Checks)] = "failed")
          /\ pollOutcome = "TRANSLATION_TIMEOUT"
                <=> (/\ Len(Checks) = maxAttempts
                     /\ \A i \in 1..Len(Checks) : Checks[i] = "pending")
          \* between n checks there are n - 1 waits
          /\ Len(pollLog) = Len(Checks) + SetMax({Len(Checks) - 1, 0})

\* C23: waitForTranslationCompletion always ends; it checks at most
\* maxAttempts times, returns at the first completed status, fails with
\* TRANSLATION_FAILED at the first failed status, fails with
\* TRANSLATION_TIMEOUT exactly when maxAttempts checks were all pending, and
\* waits intervalMs only between two checks
C23_BoundedPolling == [] PollingAsSpecified /\ <> PollEnded

\* every attempt was used and pending, with a wait between the checks
C23_Witness ==
    /\ PollEnded
    /\ pollOutcome = "TRANSLATION_TIMEOUT"
    /\ maxAttempts = 2
    /\ intervalMs = 5000
    /\ pollLog = <<Checked("pending"), Waited(5000), Checked("pending")>>

----------------------------------------------------------------------------
(* The public methods of one parser object, called in any order *)

ParserPackages ==
    {Package(f, XmlData(d1), d2) :
        f \in {{}, DirTokens},
        d1 \in {SimpleDirectDoc, SimpleTaggedDoc, BlankDoc},
        d2 \in {XmlData(SimpleDirectDoc), XmlData(SimpleTaggedDoc), MalformedXml}}

\* the units handed to updateTextBoxesWithLanguage
RewriteUnits ==
    {<<>>, <<TextBox(Story1, <<"x">>)>>,
     <<TextBox(Story1, <<"x">>), TextBox(Story2, <<"y">>)>>}

InitParser ==
    \E units \in RewriteUnits :
        /\ op \in {"IdmlParser", "IdmlParserXML"}
        /\ pc = "client"
        /\ idmlBuffer \in ParserPackages
        /\ targetLanguage \in {"en", "fa"}
        /\ standardTextBoxes = IF op = "IdmlParser" THEN units ELSE <<>>
        /\ xmlTextBoxes = IF op = "IdmlParserXML" THEN units ELSE <<>>
        /\ parserZip = <<>>
        /\ parserXMLZip = <<>>
        /\ calls = <<>>
        /\ translated = <<>>
        /\ standardBoxes = <<>>
        /\ xmlBoxes = <<>>
        /\ allTextBoxes = <<>>
        /\ updatedTextBoxes = <<>>
        /\ updatedIdmlBuffer = <<>>
        /\ submitted = <<>>
        /\ failure = ""
        /\ startIndex = <<>>
        /\ endIndex = <<>>
        /\ NotPolling

\* "private zip: JSZip | null" of the object the calls are made on
ZipField == IF op = "IdmlParser" THEN parserZip ELSE parserXMLZip

\* one call: the method, the error it threw ("" if none), the units and the
\* bytes it returned
Call(method, error, textBoxes, buffer) ==
    [method |-> method, error |-> error, textBoxes |-> textBoxes, buffer |-> buffer]

\* variant: the methods do not look at the zip field
NoFileLoaded_Unchecked(zipField) == FALSE

\* "if (!this.zip)"
NoFileLoaded(zipField) == zipField = <<>>

\* the archive behind the zip field
LoadedZip(zipField) == IF zipField = <<>> THEN <<>> ELSE zipField[1]

\* variant: the rewrite works on the loaded archive itself
ZipAfterRewrite_InPlace(zipField, output) == <<output>>

\* the zip field after updateTextBoxesWithLanguage, which fills a new JSZip
ZipAfterRewrite(zipField, output) == zipField

\* loadIdmlFile(buffer): JSZip.loadAsync rejects a buffer that is no archive
CallLoadIdmlFile ==
    /\ pc = "client"
    /\ Len(calls) < MaxCalls
    /\ \E isArchive \in BOOLEAN :
          IF isArchive
          THEN /\ parserZip' = IF op = "IdmlParser" THEN <<idmlBuffer>> ELSE parserZip
               /\ parserXMLZip' = IF op = "IdmlParserXML" THEN <<idmlBuffer>> ELSE parserXMLZip
               /\ calls' = Append(calls, Call("loadIdmlFile", "", <<>>, <<>>))
               /\ failure' = ""
          ELSE /\ UNCHANGED <<parserZip, parserXMLZip>>
               /\ calls' = Append(calls, Call("loadIdmlFile", "not a zip", <<>>, <<>>))
               /\ failure' = "not a zip"
    /\ UNCHANGED <<pc, op, idmlBuffer, targetLanguage, translated, standardBoxes,
                   xmlBoxes, allTextBoxes, updatedTextBoxes, standardTextBoxes,
                   xmlTextBoxes, updatedIdmlBuffer, submitted, startIndex,
                   endIndex, pollVars>>

\* parseDocument()
CallParseDocument ==
    /\ pc = "client"
    /\ Len(calls) < MaxCalls
    /\ LET zip    == LoadedZip(ZipField)
           error  == IF NoFileLoaded(ZipField)
                     THEN "No IDML file loaded. Call loadIdmlFile first."
                     ELSE IF ParseThrows(zip) THEN "parse" ELSE ""
           result == IF error # "" THEN <<>>
                     ELSE IF op = "IdmlParser" THEN extractTextBoxes(zip)
                     ELSE XML_extractTextBoxes(zip)
       IN  /\ calls' = Append(calls, Call("parseDocument", error, result, <<>>))
           /\ failure' = error
           /\ standardBoxes' = IF op = "IdmlParser" THEN result ELSE standardBoxes
           /\ xmlBoxes' = IF op = "IdmlParserXML" THEN result ELSE xmlBoxes
    /\ UNCHANGED <<pc, op, idmlBuffer, targetLanguage, translated, parserZip,
                   parserXMLZip, allTextBoxes, updatedTextBoxes, standardTextBoxes,
                   xmlTextBoxes, updatedIdmlBuffer, submitted, startIndex,
                   endIndex, pollVars>>

\* updateTextBoxesWithLanguage(textBoxes, targetLanguage)
CallUpdateTextBoxesWithLanguage ==
    /\ pc = "client"
    /\ Len(calls) < MaxCalls
    /\ LET zip    == LoadedZip(ZipField)
           units  == IF op = "IdmlParser" THEN standardTextBoxes ELSE xmlTextBoxes
           error  == IF NoFileLoaded(ZipField) THEN "No IDML file loaded"
                     ELSE IF RewriteThrows(zip, units) THEN "parse" ELSE ""
           result == IF error # "" THEN <<>>
                     ELSE IF op = "IdmlParser"
                     THEN updateTextBoxesWithLanguage(zip, units, targetLanguage)
                     ELSE XML_updateTextBoxesWithLanguage(zip, units, targetLanguage)
       IN  /\ calls' = Append(calls,
                 Call("updateTextBoxesWithLanguage", error, <<>>, result))
           /\ failure' = error
           /\ updatedIdmlBuffer' = result
           /\ parserZip' = IF op = "IdmlParser" /\ error = ""
                           THEN ZipAfterRewrite(parserZip, result) ELSE parserZip
           /\ parserXMLZip' = IF op = "IdmlParserXML" /\ error = ""
                              THEN ZipAfterRewrite(parserXMLZip, result)
                              ELSE parserXMLZip
    /\ UNCHANGED <<pc, op, idmlBuffer, targetLanguage, translated, standardBoxes,
                   xmlBoxes, allTextBoxes, updatedTextBoxes, standardTextBoxes,
                   xmlTextBoxes, submitted, startIndex, endIndex, pollVars>>

NextParser ==
    \/ CallLoadIdmlFile
    \/ CallParseDocument
    \/ CallUpdateTextBoxesWithLanguage

SpecParser == InitParser /\ [][NextParser]_vars

\* no loadIdmlFile among the first n calls has succeeded
NoneLoaded(n) ==
    \A i \in 1..n : calls[i].method = "loadIdmlFile" => calls[i].error # ""

\* C24: parseDocument and updateTextBoxesWithLanguage, called on a parser
\* on which no loadIdmlFile has succeeded, throw and return neither a
\* document nor bytes
C24_NoPackageLoaded ==
    \A i \in 1..Len(calls) :
        (/\ calls[i].method \in {"parseDocument", "updateTextBoxesWithLanguage"}
         /\ NoneLoaded(i))
        => /\ calls[i].error \in {"No IDML file loaded. Call loadIdmlFile first.",
                                  "No IDML file loaded"}
           /\ calls[i].textBoxes = <<>>
           /\ calls[i].buffer = <<>>

\* after a load that failed, a parse and a rewrite were refused
C24_Witness ==
    /\ Len(calls) = 3
    /\ calls[1] = Call("loadIdmlFile", "not a zip", <<>>, <<>>)
    /\ calls[2] = Call("parseDocument",
                       "No IDML file loaded. Call loadIdmlFile first.", <<>>, <<>>)
    /\ calls[3] = Call("updateTextBoxesWithLanguage", "No IDML file loaded", <<>>, <<>>)

----------------------------------------------------------------------------
(* updateTextBoxesWithLanguage and the loaded package *)

\* a loadIdmlFile among the first n calls has succeeded
SomeLoaded(n) == ~NoneLoaded(n)

\* what parseDocument returns for the package given to loadIdmlFile
ParseOfLoaded ==
    IF ParseThrows(idmlBuffer) THEN Call("parseDocument", "parse", <<>>, <<>>)
    ELSE Call("parseDocument", "",
              IF op = "IdmlParser" THEN extractTextBoxes(idmlBuffer)
              ELSE XML_extractTextBoxes(idmlBuffer),
              <<>>)

\* what updateTextBoxesWithLanguage returns for the package given to
\* loadIdmlFile
RewriteOfLoaded ==
    LET units == IF op = "IdmlParser" THEN standardTextBoxes ELSE xmlTextBoxes
    IN  IF RewriteThrows(idmlBuffer, units)
        THEN Call("updateTextBoxesWithLanguage", "parse", <<>>, <<>>)
        ELSE Call("updateTextBoxesWithLanguage", "", <<>>,
                  IF op = "IdmlParser"
                  THEN updateTextBoxesWithLanguage(idmlBuffer, units, targetLanguage)
                  ELSE XML_updateTextBoxesWithLanguage(idmlBuffer, units,
                                                       targetLanguage))

\* C29: a rewrite leaves the loaded package as it was: the zip field still
\* holds the package given to loadIdmlFile, every rewrite call returns what
\* the first one on that package returns, and every parseDocument returns
\* the units of that package, however many rewrites came before
C29_LoadedPackageUnchanged ==
    /\ ZipField \in {<<>>, <<idmlBuffer>>}
    /\ \A i \in 1..Len(calls) :
          SomeLoaded(i) =>
             /\ calls[i].method = "updateTextBoxesWithLanguage"
                   => calls[i] = RewriteOfLoaded
             /\ calls[i].method = "parseDocument" => calls[i] = ParseOfLoaded

\* two rewrites of a loaded package to a scaled language returned the same
\* bytes, and these differ from the loaded ones
C29_Witness ==
    /\ Len(calls) = 3
    /\ targetLanguage = "fa"
    /\ calls[1] = Call("loadIdmlFile", "", <<>>, <<>>)
    /\ calls[2].method = "updateTextBoxesWithLanguage"
    /\ calls[2].error = ""
    /\ calls[3] = calls[2]
    /\ \E k \in 1..Len(calls[2].buffer) :
          \E j \in 1..Len(idmlBuffer) :
             /\ idmlBuffer[j].name = calls[2].buffer[k].name
             /\ idmlBuffer[j].data.doc # calls[2].buffer[k].data.doc

----------------------------------------------------------------------------
(* Extracting the rewritten package again *)

Completed == op = "complete" /\ pc = "done"

\* the units the extractor that produced id finds in the returned package
ExtractedAgain(id) ==
    IF id \in Ids(standardBoxes) THEN extractTextBoxes(updatedIdmlBuffer)
    ELSE XML_extractTextBoxes(updatedIdmlBuffer)

\* C25 as stated: every unit with a translated pair of non-empty content t
\* is found again, by the extractor that produced it, in the rewritten
\* package, with content t
C25_TranslationVisible ==
    Completed =>
        \A k \in 1..Len(updatedTextBoxes) :
            LET u == updatedTextBoxes[k]
            IN  (\E q \in 1..Len(translated) :
                    /\ translated[q].id = u.id
                    /\ translated[q].translatedContent = u.content
                    /\ u.content # <<>>)
                => \E j \in 1..Len(ExtractedAgain(u.id)) :
                      /\ ExtractedAgain(u.id)[j].id = u.id
                      /\ ExtractedAgain(u.id)[j].content = u.content

----------------------------------------------------------------------------
(* Scaling within one rewrite call *)

\* every range of inRuns with a PointSize has, at the same place of outRuns,
\* that PointSize scaled once by 1/factor
RunsScaledOnce(inRuns, outRuns, factor) ==
    /\ Len(outRuns) = Len(inRuns)
    /\ \A j \in 1..Len(inRuns) :
          LET a == inRuns[j].attrs
          IN  (a # <<>> /\ a[1].PointSize # <<>>) =>
                 outRuns[j].attrs[1].PointSize =
                    <<[h |-> ScaledOnce(a[1].PointSize[1].h, factor), dp |-> 2]>>

\* the ranges of the touched stories of a pass over zin are scaled once in zout
PassScalesOnce(zin, zout, textBoxes, tagged) ==
    \A i \in 1..Len(zin) :
        LET storyIn  == zin[i].data.doc.story
            storyOut == OutDoc(zout, zin[i].name).story
        IN  (/\ Touched(zin, textBoxes, i)
             /\ zin[i].data.doc.root = "idPkg:Story")
            => IF tagged
               THEN RunsScaledOnce(TaggedRuns(storyIn.XMLElement),
                                   TaggedRuns(storyOut.XMLElement),
                                   getExpansionFactor(targetLanguage))
               ELSE RunsScaledOnce(ParagraphRuns(storyIn.ParagraphStyleRange),
                                   ParagraphRuns(storyOut.ParagraphStyleRange),
                                   getExpansionFactor(targetLanguage))

\* C26 as stated: in one rewrite call, Direct or Tagged, each range of a
\* touched story has its PointSize multiplied by the scale factor exactly
\* once, however many units share the story's id
C26_ScaledExactlyOnce ==
    getExpansionFactor(targetLanguage) # 100 =>
        /\ DirectPassDone =>
              PassScalesOnce(parserZip[1], updatedIdmlBuffer, standardTextBoxes, FALSE)
        /\ TaggedPassDone =>
              PassScalesOnce(parserXMLZip[1], updatedIdmlBuffer, xmlTextBoxes, TRUE)

----------------------------------------------------------------------------
(* What a Tagged rewrite leaves in the tagged-element tree *)

RECURSIVE AllTaggedRuns(_)
\* every character-style range of a tagged-element tree: those of an
\* element's paragraphs, those placed directly under it, those of its
\* nested elements
AllTaggedRuns(elements) ==
    IF elements = <<>> THEN <<>>
    ELSE ParagraphRuns(Head(elements).ParagraphStyleRange)
         \o Head(elements).CharacterStyleRange
         \o AllTaggedRuns(Head(elements).XMLElement)
         \o AllTaggedRuns(Tail(elements))

HoldsNoText(charRange) == Concat(charRange.Content) = <<>>

\* C27 as stated: after a Tagged rewrite of a story at most one range of
\* its tagged-element tree holds text, and that text is a relevant unit's
\* content; every other range, nested or directly under a tagged element,
\* is empty
C27_SourceTextCleared ==
    TaggedPassDone =>
        \A i \in 1..Len(parserXMLZip[1]) :
            LET e    == parserXMLZip[1][i]
                rel  == RelevantTextBoxes(xmlTextBoxes, StoryIdOf(e.name))
                runs == AllTaggedRuns(OutDoc(updatedIdmlBuffer, e.name).story.XMLElement)
            IN  (/\ Touched(parserXMLZip[1], xmlTextBoxes, i)
                 /\ HasStoryData(e.data.doc))
                => \E h \in 0..Len(runs) :
                      /\ h > 0 => \E c \in Contents(rel) : runs[h].Content = <<c>>
                      /\ \A k \in 1..Len(runs) : k # h => HoldsNoText(runs[k])

----------------------------------------------------------------------------
(* The two rewrite passes of getCompletedTranslation *)

BothPassesDone ==
    /\ Completed
    /\ standardTextBoxes # <<>>
    /\ xmlTextBoxes # <<>>

\* the paths of the story files a pass over zip with textBoxes rewrites
TouchedNames(zip, textBoxes) ==
    {zip[i].name : i \in {k \in 1..Len(zip) : Touched(zip, textBoxes, k)}}

\* C28: the Direct pass and the Tagged pass that follows it rewrite
\* disjoint sets of story files, and every story the Direct pass rewrote is
\* in the returned package exactly as the Direct pass left it
C28_PassesDisjoint ==
    BothPassesDone =>
        LET direct == TouchedNames(parserZip[1], standardTextBoxes)
            tagged == TouchedNames(parserXMLZip[1], xmlTextBoxes)
        IN  /\ direct \cap tagged = {}
            /\ \A name \in direct :
                  OutDoc(updatedIdmlBuffer, name) = OutDoc(parserXMLZip[1], name)

\* each pass rewrote a story, for a language that scales and redirects
C28_Witness ==
    /\ BothPassesDone
    /\ targetLanguage = "fa"
    /\ TouchedNames(parserZip[1], standardTextBoxes) # {}
    /\ TouchedNames(parserXMLZip[1], xmlTextBoxes) # {}

----------------------------------------------------------------------------
(* The scale factor of a target language *)

\* the attributes of every character-style range of a story, in document order
RangeAttrs(story) ==
    LET runs == ParagraphRuns(story.ParagraphStyleRange)
                \o story.CharacterStyleRange
                \o AllTaggedRuns(story.XMLElement)
    IN  [j \in 1..Len(runs) |-> runs[j].attrs]

\* the pass from zin to zout changed no PointSize
NoPointSizeChanged(zin, zout) ==
    \A i \in 1..Len(zin) :
        ~zin[i].dir =>
            RangeAttrs(OutDoc(zout, zin[i].name).story)
            = RangeAttrs(zin[i].data.doc.story)

\* C30: for every target language code the scale factor 1/expansionFactor
\* is a positive finite number and the same in any letter case; a code
\* without a configuration gets factor 1 and left-to-right; and a rewrite
\* with factor 1 changes no PointSize
C30_ScaleWellDefined ==
    LET scale == FontSizeScale(targetLanguage)
    IN  /\ scale.num > 0
        /\ scale.den > 0
        /\ scale = FontSizeScale(toLowerCase(targetLanguage))
        /\ getLanguageConfig(targetLanguage) = <<>> =>
              /\ ~ScaleApplies(scale)
              /\ getTextDirection(targetLanguage) = LeftToRightDirection
        /\ (DirectPassDone /\ ~ScaleApplies(scale)) =>
              NoPointSizeChanged(parserZip[1], updatedIdmlBuffer)
        /\ (TaggedPassDone /\ ~ScaleApplies(scale)) =>
              NoPointSizeChanged(parserXMLZip[1], updatedIdmlBuffer)

\* both passes ran for a code that is in no configuration
C30_Witness ==
    /\ BothPassesDone
    /\ targetLanguage \in {"xx", "XX"}
    /\ TouchedNames(parserZip[1], standardTextBoxes) # {}
    /\ TouchedNames(parserXMLZip[1], xmlTextBoxes) # {}

====
